---- MODULE Spec2Model ----
(***************************************************************************)
(* CPUID policy engine and override-directive compiler of libxc            *)
(* (tools/libxc/xc_cpuid_x86.c): xc_cpuid_policy and its guest-type and    *)
(* vendor passes, xc_cpuid_apply_policy, xc_cpuid_check and xc_cpuid_set.  *)
(* Registers are 32-bit unsigned integers; a directive string is a         *)
(* sequence of 32 characters, index j (from 0) naming bit 31-j.            *)
(***************************************************************************)
EXTENDS Integers, Naturals, Sequences, FiniteSets, TLC

\* the library calls of xc_cpuid_x86.c
VARIABLES hw, dom, pc, op, fault, input, config, config_transformed,
          regs, polregs, rc, domctl_calls, info, base_max, ext_max, prev,
          visited, featureset, ctx

\* xc_get_feature_deep_deps: the static table, the argument, the locals of
\* the search, where the call is and what it returned
VARIABLES deep_deps, feature, start, end, deep_pc, deep_ret

\* do_dom0_op of dom0_ops.c: the statics of the file, the domains of the
\* hypervisor, the model-specific registers of the processors, and the call
\* each processor is in
VARIABLES domnr, domain_list, msr_cpu_mask, msr_addr, msr_lo, msr_hi, msrs,
          calls

cpuid_vars == <<hw, dom, pc, op, fault, input, config, config_transformed,
                regs, polregs, rc, domctl_calls, info, base_max, ext_max,
                prev, visited, featureset, ctx>>

deep_vars == <<deep_deps, feature, start, end, deep_pc, deep_ret>>

dom0_vars == <<domnr, domain_list, msr_cpu_mask, msr_addr, msr_lo, msr_hi,
               msrs, calls>>

vars == <<cpuid_vars, deep_vars, dom0_vars>>

(***************************************************************************)
(* 32-bit unsigned integers.  A word is the set of the positions of its 1  *)
(* bits (0 = least significant), so that &, | and ~ are set operations     *)
(* and the arithmetic of the code (comparison, +, <<) is done on all 32    *)
(* bits, modulo 2^32.                                                      *)
(***************************************************************************)
Bits32 == 0..31

\* the word of a small non-negative integer
RECURSIVE WordFrom(_, _)
WordFrom(n, k) ==
    IF n = 0 THEN {}
    ELSE (IF n % 2 = 1 THEN {k} ELSE {}) \cup WordFrom(n \div 2, k + 1)

W(n) == WordFrom(n, 0)

\* the integer of a word below 2^31
RECURSIVE ToInt(_)
ToInt(w) ==
    IF w = {} THEN 0
    ELSE LET k == CHOOSE x \in w : TRUE
         IN  2 ^ k + ToInt(w \ {k})

\* bit k of x, as 0 or 1:  !!(x & (1U << k))
Bit(x, k) == IF k \in x THEN 1 ELSE 0

And(a, b) == a \cap b

Or(a, b) == a \cup b

TopBit(d) == CHOOSE m \in d : \A k \in d : k <= m

\* a > b, unsigned
Gt(a, b) ==
    LET d == (a \ b) \cup (b \ a)
    IN  d # {} /\ TopBit(d) \in a

Lt(a, b) == Gt(b, a)

\* x >> n
Shr(x, n) == {k - n : k \in {j \in x : j >= n}}

\* a + b, wrapping at 2^32; added as two 16-bit halves with carry
Add(a, b) ==
    LET lo == ToInt(a \cap (0..15)) + ToInt(b \cap (0..15))
        hi == ToInt(Shr(a, 16)) + ToInt(Shr(b, 16)) + lo \div 65536
    IN  W(lo % 65536) \cup {k + 16 : k \in W(hi % 65536)}

\* x << n on an unsigned int
Shl(x, n) == {k + n : k \in {j \in x : j + n < 32}}

\* #define bitmaskof(idx) (1u << ((idx) & 31))
bitmaskof(idx) == {idx % 32}

\* #define clear_bit(idx, dst) ((dst) &= ~bitmaskof(idx))
clear_bit(idx, dst) == dst \ bitmaskof(idx)

\* #define set_bit(idx, dst) ((dst) |= bitmaskof(idx))
set_bit(idx, dst) == dst \cup bitmaskof(idx)

\* clear_bit(f, dst) for every f of S
ClearAll(S, dst) == dst \ UNION {bitmaskof(f) : f \in S}

\* the OR of bitmaskof(f) over the features of S
MaskOf(S) == UNION {bitmaskof(f) : f \in S}

\* extended leaf 0x8000000n
Ext(n) == W(n) \cup {31}

\* faulty variant: a ceiling no leaf number exceeds
DEF_MAX_BASE_unbounded == Bits32

DEF_MAX_BASE == W(13)
DEF_MAX_INTELEXT == Ext(8)
DEF_MAX_AMDEXT == Ext(28)

\* #define XEN_CPUID_INPUT_UNUSED 0xFFFFFFFF (public domctl interface)
XEN_CPUID_INPUT_UNUSED == Bits32

(***************************************************************************)
(* Feature indices of xen/arch-x86/cpufeatureset.h, word * 32 + bit.       *)
(* Words: 0 = leaf 1 edx, 1 = leaf 1 ecx, 2 = leaf 0x80000001 edx,         *)
(* 3 = leaf 0x80000001 ecx, 5 = leaf 7 subleaf 0 ebx, 6 = leaf 7 ecx.      *)
(***************************************************************************)
X86_FEATURE ==
    [ FPU |-> 0, VME |-> 1, DE |-> 2, PSE |-> 3, TSC |-> 4, MSR |-> 5,
      PAE |-> 6, MCE |-> 7, CX8 |-> 8, APIC |-> 9, SEP |-> 11, MTRR |-> 12,
      PGE |-> 13, MCA |-> 14, CMOV |-> 15, PAT |-> 16, PSE36 |-> 17,
      CLFLUSH |-> 19, DS |-> 21, ACPI |-> 22, MMX |-> 23, FXSR |-> 24,
      SSE |-> 25, SSE2 |-> 26, HTT |-> 28, TM1 |-> 29, PBE |-> 31,
      SSE3 |-> 32, PCLMULQDQ |-> 33, DTES64 |-> 34, MONITOR |-> 35,
      DSCPL |-> 36, VMX |-> 37, SMX |-> 38, EIST |-> 39, TM2 |-> 40,
      SSSE3 |-> 41, FMA |-> 44, CX16 |-> 45, XTPR |-> 46, PDCM |-> 47,
      PCID |-> 49, DCA |-> 50, SSE4_1 |-> 51, SSE4_2 |-> 52, X2APIC |-> 53,
      MOVBE |-> 54, POPCNT |-> 55, TSC_DEADLINE |-> 56, AESNI |-> 57,
      XSAVE |-> 58, OSXSAVE |-> 59, AVX |-> 60, F16C |-> 61, RDRAND |-> 62,
      HYPERVISOR |-> 63,
      SYSCALL |-> 75, NX |-> 84, MMXEXT |-> 86, FFXSR |-> 89,
      PAGE1GB |-> 90, RDTSCP |-> 91, LM |-> 93, E3DNOWEXT |-> 94,
      E3DNOW |-> 95,
      LAHF_LM |-> 96, CMP_LEGACY |-> 97, SVM |-> 98, EXTAPIC |-> 99,
      CR8_LEGACY |-> 100, ABM |-> 101, SSE4A |-> 102, MISALIGNSSE |-> 103,
      E3DNOWPREFETCH |-> 104, OSVW |-> 105, IBS |-> 106, XOP |-> 107,
      SKINIT |-> 108, WDT |-> 109, LWP |-> 111, FMA4 |-> 112,
      NODEID_MSR |-> 115, TBM |-> 117, TOPOEXT |-> 118, DBEXT |-> 122,
      FSGSBASE |-> 160, TSC_ADJUST |-> 161, BMI1 |-> 163, HLE |-> 164,
      AVX2 |-> 165, SMEP |-> 167, BMI2 |-> 168, ERMS |-> 169,
      INVPCID |-> 170, RTM |-> 171, MPX |-> 174, RDSEED |-> 178,
      ADX |-> 179, SMAP |-> 180, PCOMMIT |-> 182, CLFLUSHOPT |-> 183,
      CLWB |-> 184,
      PKU |-> 195 ]

F == X86_FEATURE

(***************************************************************************)
(* Register quadruples: regs[0] = eax, [1] = ebx, [2] = ecx, [3] = edx.    *)
(***************************************************************************)
Quad(a, b, c, d) == [i \in 0..3 |-> CASE i = 0 -> a [] i = 1 -> b
                                      [] i = 2 -> c [] OTHER -> d]

ZeroRegs == Quad({}, {}, {}, {})

\* unsigned int input[2]: input[0] = leaf (eax), input[1] = subleaf (ecx)
In(leaf, sub) == [i \in 0..1 |-> IF i = 0 THEN leaf ELSE sub]

\* regs[0] = regs[1] = regs[2] = 0
ZeroABC(r) == Quad({}, {}, {}, r[3])

(***************************************************************************)
(* The processor the tool stack runs on.  cpuid() executes the CPUID       *)
(* instruction; a hardware profile fixes what it answers: the vendor       *)
(* string and maximum leaf in leaf 0, the maximum extended leaf, ncache    *)
(* cache levels in leaf 4 (eax[4:0] is the cache type, 0 past the last),   *)
(* and the quadruple fill for every other leaf.  A profile with endless    *)
(* set reports a cache type in every subleaf of leaf 4.                    *)
(***************************************************************************)
\* four characters of the vendor string, little-endian
Str4(a, b, c, d) == W(a + 256 * b + 65536 * c) \cup Shl(W(d), 24)

\* "Genu" "ineI" "ntel": ebx 0x756e6547, edx 0x49656e69, ecx 0x6c65746e
GenuineIntel ==
    Quad({}, Str4(71, 101, 110, 117), Str4(110, 116, 101, 108),
         Str4(105, 110, 101, 73))

\* "Auth" "enti" "cAMD": ebx 0x68747541, edx 0x69746e65, ecx 0x444d4163
AuthenticAMD ==
    Quad({}, Str4(65, 117, 116, 104), Str4(99, 65, 77, 68),
         Str4(101, 110, 116, 105))

VendorRegs(v) ==
    CASE v = "GenuineIntel" -> GenuineIntel
      [] v = "AuthenticAMD" -> AuthenticAMD
      [] OTHER              -> ZeroRegs

cpuid(h, in) ==
    LET count == IF in[1] = XEN_CPUID_INPUT_UNUSED THEN {} ELSE in[1]
    IN  CASE in[0] = W(0) -> [VendorRegs(h.vendor) EXCEPT ![0] = h.base]
          [] in[0] = Ext(0) -> [h.fill EXCEPT ![0] = h.ext]
          [] in[0] = W(4) ->
                [h.fill EXCEPT ![0] = (h.fill[0] \ (0..4))
                                      \cup (IF h.endless
                                               \/ Lt(count, W(h.ncache))
                                            THEN {0} ELSE {})]
          [] OTHER -> h.fill

(***************************************************************************)
(* amd_xc_cpuid_policy                                                     *)
(***************************************************************************)
AMD_EXT1_ECX ==
    MaskOf({F.LAHF_LM, F.CMP_LEGACY, F.CR8_LEGACY, F.ABM, F.SSE4A,
            F.MISALIGNSSE, F.E3DNOWPREFETCH, F.OSVW, F.XOP, F.LWP, F.FMA4,
            F.TBM, F.DBEXT})

\* 0x0183f3ff | NX | LM | PAGE1GB | SYSCALL | MMXEXT | FFXSR | 3DNOW | 3DNOWEXT
AMD_EXT1_EDX ==
    Or(W(25424895), MaskOf({F.NX, F.LM, F.PAGE1GB, F.SYSCALL, F.MMXEXT,
                            F.FFXSR, F.E3DNOW, F.E3DNOWEXT}))

\* faulty variant: the two emulated features carry the values of SVML and
\* FLUSHBYASID
SVM_FEATURE_misnumbered ==
    [ NPT |-> 1, LBRV |-> 2, SVML |-> 16, NRIPS |-> 8, TSCRATEMSR |-> 4,
      VMCBCLEAN |-> 64, FLUSHBYASID |-> 32, DECODEASSISTS |-> 128,
      PAUSEFILTER |-> 1024 ]

SVM_FEATURE ==
    [ NPT |-> 1, LBRV |-> 2, SVML |-> 4, NRIPS |-> 8, TSCRATEMSR |-> 16,
      VMCBCLEAN |-> 32, FLUSHBYASID |-> 64, DECODEASSISTS |-> 128,
      PAUSEFILTER |-> 1024 ]

amd_xc_cpuid_policy(inf, in, r) ==
    CASE in[0] \in {W(2), W(4)} -> ZeroABC(r)
      [] in[0] = Ext(0) ->
            IF Gt(r[0], DEF_MAX_AMDEXT) THEN [r EXCEPT ![0] = DEF_MAX_AMDEXT]
            ELSE r
      [] in[0] = Ext(1) ->
            LET edx == IF ~inf.pae THEN clear_bit(F.PAE, r[3]) ELSE r[3]
                ecx == And(r[2], Or(AMD_EXT1_ECX,
                                    IF inf.nestedhvm THEN bitmaskof(F.SVM)
                                    ELSE {}))
            IN  [r EXCEPT ![2] = ecx, ![3] = And(edx, AMD_EXT1_EDX)]
      [] in[0] = Ext(8) ->
            \* ((regs[2] & 0xf000u) + 1) | ((regs[2] & 0xffu) << 1) | 1u
            [r EXCEPT ![2] = Or(Or(Add(And(r[2], W(61440)), W(1)),
                                   Shl(And(r[2], W(255)), 1)), W(1))]
      [] in[0] = Ext(10) ->
            IF ~inf.nestedhvm THEN ZeroRegs
            ELSE [r EXCEPT ![3] =
                    Or(And(r[3], W(SVM_FEATURE.NPT + SVM_FEATURE.LBRV
                                   + SVM_FEATURE.NRIPS
                                   + SVM_FEATURE.PAUSEFILTER
                                   + SVM_FEATURE.DECODEASSISTS)),
                       W(SVM_FEATURE.VMCBCLEAN + SVM_FEATURE.TSCRATEMSR))]
      [] OTHER -> r

(***************************************************************************)
(* intel_xc_cpuid_policy                                                   *)
(***************************************************************************)
INTEL_EXT1_ECX == MaskOf({F.LAHF_LM, F.E3DNOWPREFETCH, F.ABM})

INTEL_EXT1_EDX == MaskOf({F.NX, F.LM, F.PAGE1GB, F.SYSCALL, F.RDTSCP})

\* faulty variant: VMX is set in leaf 1 whether or not nested virtualization
\* is enabled
intel_xc_cpuid_policy_vmx_always(inf, in, r) ==
    CASE in[0] = W(1) -> [r EXCEPT ![2] = set_bit(F.VMX, r[2])]
      [] in[0] = W(4) ->
            [r EXCEPT ![0] = Or(Or(Shl(And(r[0], 26..30), 1), {26}),
                                And(r[0], W(1023))),
                      ![3] = And(r[3], W(1023))]
      [] in[0] = Ext(0) ->
            IF Gt(r[0], DEF_MAX_INTELEXT) THEN [r EXCEPT ![0] = DEF_MAX_INTELEXT]
            ELSE r
      [] in[0] = Ext(1) ->
            [r EXCEPT ![2] = And(r[2], INTEL_EXT1_ECX),
                      ![3] = And(r[3], INTEL_EXT1_EDX)]
      [] in[0] = Ext(5) -> ZeroABC(r)
      [] in[0] = Ext(8) -> [r EXCEPT ![2] = {}]
      [] OTHER -> r

intel_xc_cpuid_policy(inf, in, r) ==
    CASE in[0] = W(1) ->
            IF inf.nestedhvm THEN [r EXCEPT ![2] = set_bit(F.VMX, r[2])]
            ELSE r
      [] in[0] = W(4) ->
            \* ((regs[0] & 0x7c000000u) << 1) | 0x04000000u | (regs[0] & 0x3ffu)
            [r EXCEPT ![0] = Or(Or(Shl(And(r[0], 26..30), 1), {26}),
                                And(r[0], W(1023))),
                      ![3] = And(r[3], W(1023))]
      [] in[0] = Ext(0) ->
            IF Gt(r[0], DEF_MAX_INTELEXT) THEN [r EXCEPT ![0] = DEF_MAX_INTELEXT]
            ELSE r
      [] in[0] = Ext(1) ->
            [r EXCEPT ![2] = And(r[2], INTEL_EXT1_ECX),
                      ![3] = And(r[3], INTEL_EXT1_EDX)]
      [] in[0] = Ext(5) -> ZeroABC(r)
      [] in[0] = Ext(8) -> [r EXCEPT ![2] = {}]
      [] OTHER -> r

(***************************************************************************)
(* xc_cpuid_config_xsave: leaf 0x0000000D.  xfeature_mask is a 64-bit      *)
(* word: a set of state-component numbers in 0..63.                        *)
(***************************************************************************)
XSAVEOPT == 1
XSAVEC == 2
XGETBV1 == 4
XSAVES == 8

\* for ( _input[1] = 2; _input[1] < 64; _input[1]++ ): the largest
\* _regs[0] + _regs[1] (unsigned) the hardware reports, from regs[2] = 0
XsaveMaxSize(h) ==
    LET sizes == {Add(cpuid(h, In(W(13), W(sub)))[0],
                      cpuid(h, In(W(13), W(sub)))[1]) : sub \in 2..63}
                    \cup {{}}
    IN  CHOOSE m \in sizes : \A x \in sizes : ~Gt(x, m)

\* faulty variant: the xfeature_mask == 0 early return is missing
xc_cpuid_config_xsave_unguarded(h, inf, in, r) ==
    CASE in[1] = W(0) ->
           Quad(inf.xfeature_mask \cap Bits32, W(512 + 64),
                XsaveMaxSize(h),
                {k - 32 : k \in inf.xfeature_mask \ Bits32})
      [] in[1] = W(1) ->
           Quad(And(r[0], W(XSAVEOPT + XSAVEC + XGETBV1 + XSAVES)),
                r[1], And(r[2], inf.xfeature_mask), {})
      [] OTHER -> Quad(r[0], r[1], {}, {})

xc_cpuid_config_xsave(h, inf, in, r) ==
    IF inf.xfeature_mask = {} THEN ZeroRegs
    ELSE CASE in[1] = W(0) ->
                Quad(inf.xfeature_mask \cap Bits32, W(512 + 64),
                     XsaveMaxSize(h),
                     {k - 32 : k \in inf.xfeature_mask \ Bits32})
           [] in[1] = W(1) ->
                LET eax == And(r[0], W(XSAVEOPT + XSAVEC + XGETBV1 + XSAVES))
                IN  Quad(IF ~inf.hvm THEN eax \ W(XSAVES) ELSE eax,
                         r[1], And(r[2], inf.xfeature_mask), {})
           [] in[1] \subseteq 0..5 /\ in[1] \notin {W(0), W(1)} ->
                \* case 2 ... 63
                IF ToInt(in[1]) \notin inf.xfeature_mask THEN ZeroRegs
                ELSE Quad(r[0], r[1], {}, {})
           [] OTHER -> r

(***************************************************************************)
(* xc_cpuid_hvm_policy                                                     *)
(***************************************************************************)
HVM_LEAF1_ECX ==
    MaskOf({F.SSE3, F.PCLMULQDQ, F.SSSE3, F.FMA, F.CX16, F.PCID, F.SSE4_1,
            F.SSE4_2, F.MOVBE, F.POPCNT, F.AESNI, F.F16C, F.RDRAND})

HVM_LEAF1_ECX_XSAVE == MaskOf({F.AVX, F.XSAVE})

HVM_LEAF1_ECX_SET == MaskOf({F.HYPERVISOR, F.TSC_DEADLINE, F.X2APIC})

HVM_LEAF1_EDX ==
    MaskOf({F.FPU, F.VME, F.DE, F.PSE, F.TSC, F.MSR, F.PAE, F.MCE, F.CX8,
            F.APIC, F.SEP, F.MTRR, F.PGE, F.MCA, F.CMOV, F.PAT, F.CLFLUSH,
            F.PSE36, F.MMX, F.FXSR, F.SSE, F.SSE2, F.HTT})

HVM_LEAF7_EBX ==
    MaskOf({F.TSC_ADJUST, F.BMI1, F.HLE, F.AVX2, F.SMEP, F.BMI2, F.ERMS,
            F.INVPCID, F.RTM, F.RDSEED, F.ADX, F.SMAP, F.FSGSBASE,
            F.PCOMMIT, F.CLWB, F.CLFLUSHOPT})

\* faulty variant: the !info->pae clearing of PAE and PSE36 is missing
hvm_leaf1_pae_kept(inf, r) ==
    Quad(r[0], Or(And(r[1], 0..15), Shl(And(r[1], 16..22), 1)),
         Or(And(r[2], Or(HVM_LEAF1_ECX,
                         IF inf.xfeature_mask # {}
                         THEN HVM_LEAF1_ECX_XSAVE ELSE {})),
            HVM_LEAF1_ECX_SET),
         set_bit(F.MTRR, And(r[3], HVM_LEAF1_EDX)))

\* case 0x00000001 of xc_cpuid_hvm_policy
hvm_leaf1(inf, r) ==
    LET \* (regs[1] & 0x0000ffffu) | ((regs[1] & 0x007f0000u) << 1)
        ebx == Or(And(r[1], 0..15), Shl(And(r[1], 16..22), 1))
        ecx == Or(And(r[2], Or(HVM_LEAF1_ECX,
                               IF inf.xfeature_mask # {}
                               THEN HVM_LEAF1_ECX_XSAVE ELSE {})),
                  HVM_LEAF1_ECX_SET)
        edx == set_bit(F.MTRR, And(r[3], HVM_LEAF1_EDX))
    IN  Quad(r[0], ebx, ecx,
             IF ~inf.pae THEN ClearAll({F.PAE, F.PSE36}, edx) ELSE edx)

\* case 0x00000007 of xc_cpuid_hvm_policy
hvm_leaf7(inf, in, r) ==
    IF in[1] = W(0)
    THEN Quad({},
              And(r[1], Or(HVM_LEAF7_EBX,
                           IF inf.xfeature_mask # {}
                           THEN bitmaskof(F.MPX) ELSE {})),
              And(r[2], bitmaskof(F.PKU)), {})
    ELSE ZeroRegs

\* the switch of xc_cpuid_hvm_policy, before the vendor pass
hvm_guest_pass(h, inf, in, r) ==
    CASE in[0] = W(0) ->
            IF Gt(r[0], DEF_MAX_BASE) THEN [r EXCEPT ![0] = DEF_MAX_BASE]
            ELSE r
      [] in[0] = W(1) -> hvm_leaf1(inf, r)
      [] in[0] = W(7) -> hvm_leaf7(inf, in, r)
      [] in[0] = W(13) -> xc_cpuid_config_xsave(h, inf, in, r)
      [] in[0] = Ext(0) -> r
      [] in[0] = Ext(1) ->
            IF ~inf.pae
            THEN [r EXCEPT ![2] = clear_bit(F.LAHF_LM, r[2]),
                           ![3] = ClearAll({F.LM, F.NX, F.PSE36, F.PAGE1GB},
                                           r[3])]
            ELSE r
      [] in[0] = Ext(7) -> Quad({}, {}, {}, And(r[3], {8}))
      [] in[0] = Ext(8) -> Quad(And(r[0], 0..15), {}, r[2], {})
      [] in[0] \in {W(2), W(4), W(10), Ext(2), Ext(3), Ext(4), Ext(5),
                    Ext(6), Ext(10), Ext(28)} -> r
      [] OTHER -> ZeroRegs

\* faulty variant: the vendor pass is not run
xc_cpuid_hvm_policy_no_vendor(h, inf, in, r) == hvm_guest_pass(h, inf, in, r)

xc_cpuid_hvm_policy(h, inf, in, r) ==
    IF inf.vendor = "VENDOR_AMD"
    THEN amd_xc_cpuid_policy(inf, in, hvm_guest_pass(h, inf, in, r))
    ELSE intel_xc_cpuid_policy(inf, in, hvm_guest_pass(h, inf, in, r))

(***************************************************************************)
(* xc_cpuid_pv_policy                                                      *)
(***************************************************************************)
PV_LEAF7_EBX ==
    MaskOf({F.BMI1, F.HLE, F.AVX2, F.BMI2, F.ERMS, F.RTM, F.RDSEED, F.ADX,
            F.FSGSBASE})

\* if ( (input[0] & 0x7fffffff) == 0x00000001 ): leaves 1 and 0x80000001
pv_common_edx(inf, in, r) ==
    IF in[0] \ {31} = W(1)
    THEN [r EXCEPT ![3] =
            ClearAll({F.VME, F.MCE, F.MCA, F.MTRR, F.PSE36}
                     \cup (IF ~inf.pvh THEN {F.PSE, F.PGE} ELSE {}), r[3])]
    ELSE r

\* case 0x00000001 of xc_cpuid_pv_policy
pv_leaf1(inf, r) ==
    LET edx == ClearAll({F.DS, F.TM1, F.PBE}
                        \cup (IF inf.vendor = "VENDOR_AMD"
                              THEN {F.SEP} ELSE {}), r[3])
        ecx == ClearAll({F.DTES64, F.MONITOR, F.DSCPL, F.VMX, F.SMX,
                         F.EIST, F.TM2, F.XTPR, F.PDCM, F.PCID, F.DCA}
                        \cup (IF ~inf.pv64 THEN {F.CX16} ELSE {})
                        \cup (IF inf.xfeature_mask = {}
                              THEN {F.XSAVE, F.AVX} ELSE {}), r[2])
    IN  Quad(r[0], r[1], set_bit(F.HYPERVISOR, ecx), edx)

\* case 0x00000007 of xc_cpuid_pv_policy
pv_leaf7(inf, in, r) ==
    IF in[1] = W(0)
    THEN LET ebx == And(r[1], PV_LEAF7_EBX)
         IN  Quad({}, IF inf.xfeature_mask = {}
                      THEN clear_bit(F.MPX, ebx) ELSE ebx, {}, {})
    ELSE ZeroRegs

pv_switch(h, inf, in, r) ==
    CASE in[0] = W(1) -> pv_leaf1(inf, r)
      [] in[0] = W(7) -> pv_leaf7(inf, in, r)
      [] in[0] = W(13) -> xc_cpuid_config_xsave(h, inf, in, r)
      [] in[0] = Ext(1) ->
            LET edx1 == IF ~inf.pv64
                        THEN ClearAll({F.LM}
                                      \cup (IF inf.vendor # "VENDOR_AMD"
                                            THEN {F.SYSCALL} ELSE {}), r[3])
                        ELSE set_bit(F.SYSCALL, r[3])
                edx == ClearAll({F.RDTSCP}
                                \cup (IF ~inf.pvh THEN {F.PAGE1GB} ELSE {}),
                                edx1)
                ecx == ClearAll({F.SVM, F.OSVW, F.IBS, F.SKINIT, F.WDT,
                                 F.LWP, F.NODEID_MSR, F.TOPOEXT}
                                \cup (IF ~inf.pv64 THEN {F.LAHF_LM} ELSE {}),
                                r[2])
            IN  Quad(r[0], r[1], ecx, edx)
      [] in[0] \in {W(5), W(10), W(11), Ext(10), Ext(27), Ext(28), Ext(30)} ->
            ZeroRegs
      [] OTHER -> r

xc_cpuid_pv_policy(h, inf, in, r) ==
    pv_switch(h, inf, in, pv_common_edx(inf, in, r))

(***************************************************************************)
(* xc_cpuid_policy: the Policy Engine's computeLeaf                        *)
(***************************************************************************)
\* faulty variant: the HVM rule table is not consulted
xc_cpuid_policy_pv_rules(h, inf, in, r) ==
    IF in[0] \cap (16..31) = {30} THEN ZeroRegs
    ELSE xc_cpuid_pv_policy(h, inf, in, r)

xc_cpuid_policy(h, inf, in, r) ==
    \* (input[0] & 0xffff0000) == 0x40000000
    IF in[0] \cap (16..31) = {30} THEN ZeroRegs
    ELSE IF inf.hvm THEN xc_cpuid_hvm_policy(h, inf, in, r)
    ELSE xc_cpuid_pv_policy(h, inf, in, r)

(***************************************************************************)
(* get_cpuid_domain_info: the Domain Context Resolver.  d is what the      *)
(* hypervisor reports for the domain; flt is the environment fault         *)
(* injected into this call.  struct cpuid_domain_info starts zeroed, so    *)
(* the fields of the other guest type stay FALSE.                          *)
(***************************************************************************)
\* the null pointer
NULL == <<>>

NoInfo ==
    [vendor |-> "VENDOR_UNKNOWN", hvm |-> FALSE, pvh |-> FALSE,
     xfeature_mask |-> {}, pv64 |-> FALSE, pae |-> FALSE, nestedhvm |-> FALSE]

detect_vendor(h) ==
    LET r == cpuid(h, In(W(0), XEN_CPUID_INPUT_UNUSED))
    IN  IF r[1] = GenuineIntel[1] /\ r[2] = GenuineIntel[2]
           /\ r[3] = GenuineIntel[3]
        THEN "VENDOR_INTEL"
        ELSE IF r[1] = AuthenticAMD[1] /\ r[2] = AuthenticAMD[2]
                /\ r[3] = AuthenticAMD[3]
        THEN "VENDOR_AMD"
        ELSE "VENDOR_UNKNOWN"

\* entries of a feature set the host knows: FEATURESET_NR_ENTRIES
HostFeatureWords == 2

xc_get_cpu_featureset_size == HostFeatureWords

\* the featureset argument: a pointer (given = FALSE is NULL) to
\* nr_features = Len(words) entries; beyond is what a read past the end of
\* the caller's buffer yields, which the language leaves open
NoFeatureset == [given |-> FALSE, words |-> <<>>, beyond |-> 0]

\* featureset[i], i from 0
featureset_read(fs, i) ==
    IF i < Len(fs.words) THEN fs.words[i + 1] ELSE fs.beyond

\* calloc(host_nr_features, ...) then
\* memcpy(info->featureset, featureset, min(host_nr_features, nr_features))
featureset_copy(fs) ==
    [i \in 1..xc_get_cpu_featureset_size |->
        IF fs.given /\ i <= Len(fs.words) THEN fs.words[i] ELSE 0]

\* for ( i = nr_features; i < host_nr_features; ++i )
\*     if ( featureset[i] != 0 ) return -EOPNOTSUPP;
featureset_truncated(fs) ==
    \E i \in Len(fs.words)..(xc_get_cpu_featureset_size - 1) :
        featureset_read(fs, i) # 0

\* what xc_get_cpu_featureset stores: the hypervisor's default feature set
\* of the guest type
xc_get_cpu_featureset(hvm) ==
    [i \in 1..xc_get_cpu_featureset_size |-> IF hvm THEN 1 ELSE 2]

\* buf is info->featureset when the call returns: NULL or the host-sized
\* array
get_cpuid_domain_info(h, d, flt, fs) ==
    IF flt.kind = "getinfo"
    THEN [rc |-> "-ESRCH",
          info |-> [NoInfo EXCEPT !.vendor = detect_vendor(h)],
          buf |-> NULL]
    ELSE IF fs.given /\ featureset_truncated(fs)
    THEN [rc |-> "-EOPNOTSUPP",
          info |-> [NoInfo EXCEPT !.vendor = detect_vendor(h),
                                  !.hvm = d.hvm, !.pvh = d.pvh],
          buf |-> featureset_copy(fs)]
    ELSE [rc |-> "0",
          info |-> [vendor |-> detect_vendor(h), hvm |-> d.hvm,
                    pvh |-> d.pvh, xfeature_mask |-> d.xfeature_mask,
                    pv64 |-> IF d.hvm THEN FALSE ELSE d.width = 8,
                    pae |-> IF d.hvm THEN d.pae ELSE FALSE,
                    nestedhvm |-> IF d.hvm THEN d.nestedhvm ELSE FALSE],
          buf |-> IF fs.given THEN featureset_copy(fs)
                  ELSE xc_get_cpu_featureset(d.hvm)]

\* the DomainContext's heap buffer, and whether it has been released
NoCtx == [buf |-> NULL, freed |-> FALSE]

\* free(info->featureset)
\* faulty variant: the feature set buffer is not released
free_cpuid_domain_info_leak(c) == c

free_cpuid_domain_info(c) == [c EXCEPT !.freed = TRUE]

(***************************************************************************)
(* xc_cpuid_do_domctl: XEN_DOMCTL_set_cpuid, the one mutating call.  The   *)
(* calls a library call has issued are kept in domctl_calls.               *)
(***************************************************************************)
\* ncalls: the domctls this library call has issued before
xc_cpuid_do_domctl(flt, ncalls) ==
    IF flt.kind = "domctl" /\ flt.n = ncalls + 1 THEN "-EFAULT" ELSE "0"

\* faulty variant: the registers are not copied into the request
DomctlCall_unfilled(id, in, r, res) ==
    [domid |-> id, input |-> in, regs |-> ZeroRegs, rc |-> res]

DomctlCall(id, in, r, res) ==
    [domid |-> id, input |-> in, regs |-> r, rc |-> res]

(***************************************************************************)
(* Directive strings: char[32] plus terminator; NULL is the absent string. *)
(***************************************************************************)
NUL == "NUL"

\* alloc_str(): malloc(33) then memset(s, 0, 33)
alloc_str == [j \in 1..32 |-> NUL]

NoStrs == [i \in 0..3 |-> NULL]

\* faulty variant: every character is found
strchr_any(s, c) == TRUE

\* strchr(s, c) != NULL; the terminator of s matches c == '\0'
strchr(s, c) == c \in s \cup {NUL}

\* '0' + val
Digit(val) == IF val = 1 THEN "1" ELSE "0"

\* faulty variant: the outputs are left as they are
free_all_skipped(ct) == ct

\* the fail: / fail_rc: loops: free() and NULL all four outputs
free_all(ct) == [i \in 0..3 |-> NULL]

(***************************************************************************)
(* xc_cpuid_check                                                          *)
(***************************************************************************)
\* the condition of the goto fail in the bit loop, negated
check_accepts(c, val) ==
    /\ strchr({"1", "0", "x", "s"}, c)
    /\ ~(c = "1" /\ val = 0)
    /\ ~(c = "0" /\ val = 1)

check_transformed(c, val) == IF c = "s" THEN Digit(val) ELSE c

\* faulty variant: string position j read as bit j
check_bit_unmirrored(r, j) == Bit(r, j)

\* bit index of string position j
check_bit(r, j) == Bit(r, 31 - j)

\* the string positions the bit loop goes through before it stops: all 32,
\* or those before the first position that takes the goto
Done32(bad) ==
    IF bad = {} THEN 0..31
    ELSE 0..((CHOOSE j \in bad : \A k \in bad : j <= k) - 1)

\* for ( j = 0; j < 32; j++ ) of xc_cpuid_check, on register r
check_bits(cfg, r) ==
    LET bad == {j \in 0..31 : ~check_accepts(cfg[j + 1], check_bit(r, j))}
        done == Done32(bad)
    IN  [ok |-> bad = {},
         str |-> [j1 \in 1..32 |->
                    IF j1 - 1 \in done
                    THEN check_transformed(cfg[j1], check_bit(r, j1 - 1))
                    ELSE alloc_str[j1]]]

RECURSIVE check_regs(_, _, _, _, _, _)
check_regs(r, cfg, i, ct, nalloc, flt) ==
    IF i = 4 THEN [rc |-> "0", ct |-> ct]
    ELSE IF cfg[i] = NULL THEN check_regs(r, cfg, i + 1, ct, nalloc, flt)
    ELSE IF flt.kind = "alloc" /\ flt.n = nalloc + 1
    THEN [rc |-> "-ENOMEM", ct |-> free_all(ct)]
    ELSE LET b == check_bits(cfg[i], r[i])
         IN  IF ~b.ok
             THEN [rc |-> "-EPERM", ct |-> free_all([ct EXCEPT ![i] = b.str])]
             ELSE check_regs(r, cfg, i + 1, [ct EXCEPT ![i] = b.str],
                             nalloc + 1, flt)

xc_cpuid_check(h, in, cfg, flt) ==
    check_regs(cpuid(h, in), cfg, 0, NoStrs, 0, flt)

(***************************************************************************)
(* xc_cpuid_set                                                            *)
(***************************************************************************)
\* faulty variant: 's' takes the policy's bit, like 'x'
set_val_sticky_default(c, val, polval) ==
    CASE c = "1" -> 1
      [] c = "0" -> 0
      [] c \in {"x", "s"} -> polval
      [] OTHER   -> val

\* the bit applied for directive character c
set_val(c, val, polval) ==
    CASE c = "1" -> 1
      [] c = "0" -> 0
      [] c = "x" -> polval
      [] OTHER   -> val

\* faulty variant: 's' resolved to the complement of the applied bit
set_transformed_inverted(c, val) == IF c = "s" THEN Digit(1 - val) ELSE c

set_transformed(c, val) == IF c = "s" THEN Digit(val) ELSE c

\* faulty variant: string position j written to bit j
put_bit_unmirrored(r, j, val) ==
    IF val = 1 THEN set_bit(j, r) ELSE clear_bit(j, r)

\* if ( val ) set_bit(31 - j, regs[i]); else clear_bit(31 - j, regs[i]);
put_bit(r, j, val) ==
    IF val = 1 THEN set_bit(31 - j, r) ELSE clear_bit(31 - j, r)

\* for ( j = 0; j < 32; j++ ) of xc_cpuid_set, on register r with the
\* policy's register pol; pass j reads and writes bit 31 - j of r only
set_bits(cfg, r, pol) ==
    LET bad == {j \in 0..31 : ~strchr({"1", "0", "x", "k", "s"}, cfg[j + 1])}
        done == Done32(bad)
        val(j) == set_val(cfg[j + 1], Bit(r, 31 - j), Bit(pol, 31 - j))
    IN  [ok |-> bad = {},
         reg |-> {k \in Bits32 :
                    IF 31 - k \in done THEN k \in put_bit(r, 31 - k,
                                                          val(31 - k))
                    ELSE k \in r},
         str |-> [j1 \in 1..32 |->
                    IF j1 - 1 \in done
                    THEN set_transformed(cfg[j1], val(j1 - 1))
                    ELSE alloc_str[j1]]]

RECURSIVE set_regs(_, _, _, _, _, _, _)
set_regs(r, pol, cfg, i, ct, nalloc, flt) ==
    IF i = 4 THEN [rc |-> "0", regs |-> r, ct |-> ct]
    ELSE IF cfg[i] = NULL
    THEN set_regs([r EXCEPT ![i] = pol[i]], pol, cfg, i + 1, ct, nalloc, flt)
    ELSE IF flt.kind = "alloc" /\ flt.n = nalloc + 1
    THEN [rc |-> "-ENOMEM", regs |-> r, ct |-> ct]
    ELSE LET b == set_bits(cfg[i], r[i], pol[i])
         IN  IF ~b.ok
             THEN [rc |-> "-EINVAL", regs |-> [r EXCEPT ![i] = b.reg],
                   ct |-> [ct EXCEPT ![i] = b.str]]
             ELSE set_regs([r EXCEPT ![i] = b.reg], pol, cfg, i + 1,
                           [ct EXCEPT ![i] = b.str], nalloc + 1, flt)

\* the whole call: what it returns, leaves in its locals, and the domctls
\* it issued
xc_cpuid_set(h, id, d, in, cfg, flt) ==
    LET gi == get_cpuid_domain_info(h, d, flt, NoFeatureset)
        raw == cpuid(h, in)
        pol == xc_cpuid_policy(h, gi.info, in, raw)
        lp == set_regs(raw, pol, cfg, 0, NoStrs, 0, flt)
        res == xc_cpuid_do_domctl(flt, 0)
    IN  IF gi.rc # "0"
        THEN [rc |-> gi.rc, info |-> gi.info, regs |-> ZeroRegs,
              polregs |-> ZeroRegs, ct |-> NoStrs, calls |-> <<>>,
              ctx |-> free_cpuid_domain_info([NoCtx EXCEPT !.buf = gi.buf])]
        ELSE IF lp.rc # "0"
        THEN [rc |-> lp.rc, info |-> gi.info, regs |-> lp.regs,
              polregs |-> pol, ct |-> free_all(lp.ct), calls |-> <<>>,
              ctx |-> free_cpuid_domain_info([NoCtx EXCEPT !.buf = gi.buf])]
        ELSE [rc |-> res, info |-> gi.info, regs |-> lp.regs,
              polregs |-> pol,
              ct |-> IF res = "0" THEN lp.ct ELSE free_all(lp.ct),
              calls |-> <<DomctlCall(id, in, lp.regs, res)>>,
              ctx |-> free_cpuid_domain_info([NoCtx EXCEPT !.buf = gi.buf])]

(***************************************************************************)
(* xc_cpuid_apply_policy: the traversal                                    *)
(***************************************************************************)
\* (a <= b) ? a : b
Clamp(a, b) == IF ~Gt(a, b) THEN a ELSE b

apply_base_max(h) == Clamp(cpuid(h, In(W(0), W(0)))[0], DEF_MAX_BASE)

\* faulty variant: only an Intel context gets the Intel ceiling
apply_ext_max_intel_only(h, inf) ==
    IF inf.vendor = "VENDOR_INTEL"
    THEN Clamp(cpuid(h, In(Ext(0), W(0)))[0], DEF_MAX_INTELEXT)
    ELSE Clamp(cpuid(h, In(Ext(0), W(0)))[0], DEF_MAX_AMDEXT)

apply_ext_max(h, inf) ==
    IF inf.vendor = "VENDOR_AMD"
    THEN Clamp(cpuid(h, In(Ext(0), W(0)))[0], DEF_MAX_AMDEXT)
    ELSE Clamp(cpuid(h, In(Ext(0), W(0)))[0], DEF_MAX_INTELEXT)

\* faulty variant: the subleaf is reset to 0 on entering leaves 4 and 0xd
\* only
apply_advance_leaf7_unused(in, r, bmax, emax) ==
    LET sub1 == IF in[0] = W(4) THEN Add(in[1], W(1)) ELSE in[1]
        leaf1 == Add(in[0], W(1))
        leaf2 == IF 31 \notin leaf1 /\ Gt(leaf1, bmax) THEN Ext(0)
                 ELSE leaf1
    IN  IF in[0] = W(4) /\ And(r[0], 0..4) # {}
        THEN [input |-> In(W(4), sub1), brk |-> FALSE]
        ELSE IF in[0] = W(13) /\ Lt(sub1, W(63))
        THEN [input |-> In(W(13), Add(sub1, W(1))), brk |-> FALSE]
        ELSE [input |-> In(leaf2, IF leaf2 \in {W(4), W(13)} THEN W(0)
                                  ELSE XEN_CPUID_INPUT_UNUSED),
              brk |-> 31 \in leaf2 /\ Gt(leaf2, emax)]

\* the tail of the for ( ; ; ) body: the next input, and whether the loop
\* breaks
apply_advance(in, r, bmax, emax) ==
    LET sub1 == IF in[0] = W(4) THEN Add(in[1], W(1)) ELSE in[1]
        leaf1 == Add(in[0], W(1))
        leaf2 == IF 31 \notin leaf1 /\ Gt(leaf1, bmax) THEN Ext(0)
                 ELSE leaf1
    IN  IF in[0] = W(4) /\ And(r[0], 0..4) # {}
        THEN [input |-> In(W(4), sub1), brk |-> FALSE]
        ELSE IF in[0] = W(13) /\ Lt(sub1, W(63))
        THEN [input |-> In(W(13), Add(sub1, W(1))), brk |-> FALSE]
        ELSE [input |-> In(leaf2, IF leaf2 \in {W(4), W(7), W(13)} THEN W(0)
                                  ELSE XEN_CPUID_INPUT_UNUSED),
              brk |-> 31 \in leaf2 /\ Gt(leaf2, emax)]

(***************************************************************************)
(* xc_get_feature_deep_deps: binary search of the static table deep_deps[] *)
(* (INIT_DEEP_DEPS, generated at build time), whose entries are a feature  *)
(* index and the feature set fs of its dependencies.  Indices count from   *)
(* 0 as in the code; the result is fs of the entry found, or NULL.         *)
(***************************************************************************)
ARRAY_SIZE(a) == Len(a)

\* faulty variant: the lower half is dropped without dropping mid
deep_deps_pass_keeps_mid(tbl, f, s, e) ==
    LET mid == s + ((e - s) \div 2)
    IN  IF tbl[mid + 1].feature > f
        THEN [start |-> s, end |-> mid, found |-> FALSE, ret |-> NULL]
        ELSE IF tbl[mid + 1].feature < f
        THEN [start |-> mid, end |-> e, found |-> FALSE, ret |-> NULL]
        ELSE [start |-> s, end |-> e, found |-> TRUE,
              ret |-> tbl[mid + 1].fs]

\* the body of while ( start < end )
deep_deps_pass(tbl, f, s, e) ==
    LET mid == s + ((e - s) \div 2)
    IN  IF tbl[mid + 1].feature > f
        THEN [start |-> s, end |-> mid, found |-> FALSE, ret |-> NULL]
        ELSE IF tbl[mid + 1].feature < f
        THEN [start |-> mid + 1, end |-> e, found |-> FALSE, ret |-> NULL]
        ELSE [start |-> s, end |-> e, found |-> TRUE,
              ret |-> tbl[mid + 1].fs]

(***************************************************************************)
(* dom0_ops.c: do_dom0_op, the privileged command hypercall.  Each         *)
(* processor may be inside do_dom0_op on behalf of the privileged domain   *)
(* running on it; the statics of the file are shared by all of them.       *)
(* A struct domain is an entry of domain_list and a pointer to it is its   *)
(* index, 0 being the null pointer; find_domain_by_id, get_domain,         *)
(* put_domain, do_createdomain and domain_kill are defined outside this    *)
(* file and stand here for what do_dom0_op relies on: a lookup that takes  *)
(* a reference, the release of one, the allocation of a structure with     *)
(* the identifier given, and the end of a domain's life.                   *)
(***************************************************************************)
\* the processors
smp_num_cpus == 2

Cpus == 0..(smp_num_cpus - 1)

\* the largest domain identifier that is not a special value
MaxDomid == 3

\* the first special value of domid_t
DOMID_SELF == MaxDomid + 1

\* struct domain *: no domain
NoDomain == 0

\* a live structure holds the reference of its own existence
NewDomain(id) == [domain |-> id, refcnt |-> 1, live |-> TRUE]

\* the domains at boot: domain 0
BootDomains == <<NewDomain(0)>>

\* the structure find_domain_by_id returns for identifier id
find_domain_by_id(dl, id) ==
    IF \E i \in 1..Len(dl) : dl[i].live /\ dl[i].domain = id
    THEN CHOOSE i \in 1..Len(dl) :
            /\ dl[i].live /\ dl[i].domain = id
            /\ \A j \in 1..(i - 1) : ~(dl[j].live /\ dl[j].domain = id)
    ELSE NoDomain

get_domain(dl, d) == [dl EXCEPT ![d].refcnt = @ + 1]

put_domain(dl, d) == [dl EXCEPT ![d].refcnt = @ - 1]

\* do_createdomain(dom, pro) when it succeeds: the new structure is the last
do_createdomain(dl, id) == Append(dl, NewDomain(id))

\* domain_kill(d): the domain is gone for lookups and gives up the reference
\* of its existence
domain_kill(dl, d) ==
    IF dl[d].live
    THEN [dl EXCEPT ![d].live = FALSE, ![d].refcnt = @ - 1]
    ELSE dl

\* DOM0_CREATEDOMAIN, under domnr_lock:
\* if ( (dom = ++domnr) == DOMID_SELF ) dom = domnr = 1;
createdomain_next(nr) ==
    IF nr + 1 = DOMID_SELF THEN [dom |-> 1, domnr |-> 1]
    ELSE [dom |-> nr + 1, domnr |-> nr + 1]

\* the model-specific registers of the model, and the data written to them
MsrAddrs == {1, 2}

MsrData == {1, 2}

\* the content of register a of processor c at boot: <<lo, hi>>
MsrReset(c, a) == <<10 + a, 0>>

\* op->u.msr of a call that is not DOM0_MSR
NoMsr ==
    [write |-> FALSE, cpu_mask |-> {}, msr |-> 0, in1 |-> 0, in2 |-> 0,
     out1 |-> 0, out2 |-> 0]

\* write_msr_for on every processor, as smp_call_function(write_msr_for) and
\* the local call run it: a processor of msr_cpu_mask does
\* wrmsr(msr_addr, msr_lo, msr_hi).  The registers after it.
write_msr_for(bank, mask, addr, lo, hi) ==
    [c \in Cpus |-> IF c \in mask THEN [bank[c] EXCEPT ![addr] = <<lo, hi>>]
                    ELSE bank[c]]

\* read_msr_for on every processor: a processor of msr_cpu_mask does
\* rdmsr(msr_addr, msr_lo, msr_hi); the values msr_lo and msr_hi may hold
\* afterwards, the last processor to store being any of them.
read_msr_for(bank, mask, addr, lo, hi) ==
    IF mask = {} THEN {<<lo, hi>>} ELSE {bank[c][addr] : c \in mask}

\* what a processor that is not in do_dom0_op holds.  log is the rdmsr
\* instructions that the broadcast of a read has run, with what they read;
\* count is the number of DOM0_MSR calls the processor has made.
NoCall ==
    [pc |-> "idle", cmd |-> "none", dom |-> 0, d |-> NoDomain, ret |-> "0",
     num |-> 0, ctxt |-> FALSE, msr |-> NoMsr, log |-> {}, count |-> 0]

\* the domain the caller runs in: the privileged domain, domain 0
current == find_domain_by_id(BootDomains, 0)

\* the commands of do_dom0_op that look a domain up and so take a reference
RefCommands ==
    {"DOM0_BUILDDOMAIN", "DOM0_STARTDOMAIN", "DOM0_STOPDOMAIN",
     "DOM0_DESTROYDOMAIN", "DOM0_PINCPUDOMAIN", "DOM0_GETMEMLIST",
     "DOM0_GETDOMAININFO", "DOM0_GETPAGEFRAMEINFO", "DOM0_SHADOW_CONTROL",
     "DOM0_SETDOMAINNAME", "DOM0_SETDOMAININITIALMEM", "DOM0_SETDOMAINMAXMEM",
     "DOM0_GETPAGEFRAMEINFO2"}

\* the largest batch DOM0_GETPAGEFRAMEINFO2 accepts
GPF2_LIMIT == 1024

\* the domain a command works on.  DOM0_GETDOMAININFO walks the domains in
\* the order of their identifiers and stops at the first one whose identifier
\* is not below the one asked for; every other command asks for the identifier
\* itself.  DOM0_GETPAGEFRAMEINFO does not look the domain up when the frame
\* number is beyond the last page.
dom0_lookup(cmd, dl, id, pfn_ok) ==
    IF cmd = "DOM0_GETDOMAININFO"
    THEN IF \E i \in 1..Len(dl) : dl[i].live /\ dl[i].domain >= id
         THEN CHOOSE i \in 1..Len(dl) :
                 /\ dl[i].live /\ dl[i].domain >= id
                 /\ \A j \in 1..Len(dl) :
                       (dl[j].live /\ dl[j].domain >= id) =>
                          dl[i].domain <= dl[j].domain
         ELSE NoDomain
    ELSE IF cmd = "DOM0_GETPAGEFRAMEINFO" /\ ~pfn_ok THEN NoDomain
    ELSE find_domain_by_id(dl, id)

\* the result of a command that found no domain
dom0_not_found(cmd) ==
    IF cmd \in {"DOM0_BUILDDOMAIN", "DOM0_GETMEMLIST", "DOM0_GETPAGEFRAMEINFO"}
    THEN "-EINVAL" ELSE "-ESRCH"

\* the rest of a command that holds a reference on d: its result, whether it
\* kills the domain, and whether it reaches a put_domain(d) on its way out.
\* fail stands for what the command depends on besides its arguments (the
\* guest cannot be set up, the domain is not constructed, a copy to or from
\* the caller faults, kmalloc returns NULL, the page is not the domain's).
dom0_op_exit(cmd, d, num, ctxt, fail) ==
    CASE cmd = "DOM0_BUILDDOMAIN" ->
            [ret |-> IF fail THEN "-EINVAL" ELSE "0", kill |-> FALSE,
             put |-> TRUE]
      [] cmd = "DOM0_STARTDOMAIN" ->
            [ret |-> IF fail THEN "-EINVAL" ELSE "0", kill |-> FALSE,
             put |-> TRUE]
      [] cmd = "DOM0_STOPDOMAIN" ->
            [ret |-> IF d # current THEN "0" ELSE "-EINVAL", kill |-> FALSE,
             put |-> TRUE]
      [] cmd = "DOM0_DESTROYDOMAIN" ->
            [ret |-> IF d # current THEN "0" ELSE "-EINVAL",
             kill |-> d # current, put |-> TRUE]
      [] cmd = "DOM0_PINCPUDOMAIN" ->
            [ret |-> IF d = current THEN "-EINVAL" ELSE "0", kill |-> FALSE,
             put |-> TRUE]
      [] cmd = "DOM0_GETMEMLIST" ->
            [ret |-> IF fail THEN "-EFAULT" ELSE "0", kill |-> FALSE,
             put |-> TRUE]
      [] cmd = "DOM0_GETDOMAININFO" ->
            \* with a context asked for, kmalloc may fail; else a copy may
            [ret |-> IF fail THEN (IF ctxt THEN "-ENOMEM" ELSE "-EINVAL")
                     ELSE "0",
             kill |-> FALSE, put |-> TRUE]
      [] cmd = "DOM0_GETPAGEFRAMEINFO" ->
            [ret |-> IF fail THEN "-EINVAL" ELSE "0", kill |-> FALSE,
             put |-> TRUE]
      [] cmd = "DOM0_SHADOW_CONTROL" ->
            [ret |-> IF fail THEN "-EINVAL" ELSE "0", kill |-> FALSE,
             put |-> TRUE]
      [] cmd = "DOM0_SETDOMAINNAME" ->
            [ret |-> "0", kill |-> FALSE, put |-> TRUE]
      [] cmd = "DOM0_SETDOMAININITIALMEM" ->
            [ret |-> IF fail THEN "-EINVAL" ELSE "0", kill |-> FALSE,
             put |-> TRUE]
      [] cmd = "DOM0_SETDOMAINMAXMEM" ->
            [ret |-> "0", kill |-> FALSE, put |-> TRUE]
      [] cmd = "DOM0_GETPAGEFRAMEINFO2" ->
            IF num > GPF2_LIMIT
            THEN [ret |-> "-E2BIG", kill |-> FALSE, put |-> FALSE]
            ELSE [ret |-> IF fail THEN "-EINVAL" ELSE "0", kill |-> FALSE,
                  put |-> TRUE]

(***************************************************************************)
(* Inputs of the model.                                                    *)
(***************************************************************************)
\* cache levels the hardware enumerates in leaf 4
MaxCache == 2

\* the highest xsave state component the domain may have enabled
MaxXstate == 2

\* the subleaves of leaf 4 the traversal is followed through
MaxLeaf4 == 6


AllOnes == Bits32
\* 0xAAAAAAAA and 0x55555555
OddBits == {k \in Bits32 : k % 2 = 1}
EvenBits == {k \in Bits32 : k % 2 = 0}

RawQuads ==
    { Quad(AllOnes, AllOnes, AllOnes, AllOnes),
      Quad(OddBits, EvenBits, OddBits, EvenBits),
      Quad(EvenBits, OddBits, EvenBits, {}) }

Vendors == {"GenuineIntel", "AuthenticAMD", "CentaurHauls"}

\* the machines the single-leaf calls are exercised on
Hardware ==
    [vendor : {"GenuineIntel", "AuthenticAMD"}, fill : RawQuads,
     base : {W(13)}, ext : {Ext(8)}, ncache : {MaxCache}, endless : {FALSE}]

HardwareApply ==
    [vendor : Vendors,
     fill : {Quad(AllOnes, AllOnes, AllOnes, AllOnes),
             Quad(EvenBits, OddBits, EvenBits, {})},
     base : {W(13)}, ext : {Ext(8)}, ncache : {MaxCache}, endless : {FALSE}]
      \cup
    [vendor : Vendors,
     fill : {Quad(AllOnes, AllOnes, AllOnes, AllOnes),
             Quad(EvenBits, OddBits, EvenBits, {})},
     base : {W(20)}, ext : {Ext(32)}, ncache : {0}, endless : {FALSE}]
      \cup
    [vendor : Vendors, fill : {Quad(AllOnes, AllOnes, AllOnes, AllOnes)},
     base : {W(13)}, ext : {Ext(8)}, ncache : {0}, endless : {TRUE}]
      \cup
    \* a processor without extended leaves, and with few basic ones
    [vendor : {"GenuineIntel"},
     fill : {Quad(AllOnes, AllOnes, AllOnes, AllOnes)},
     base : {W(5)}, ext : {W(5)}, ncache : {1}, endless : {FALSE}]

XfeatureMasks == {{}, 0..MaxXstate}

\* what the hypervisor reports for a domain; the HVM parameters exist for
\* HVM domains and the guest width for PV domains
DomSet ==
    [hvm : {TRUE}, pvh : {FALSE}, pae : BOOLEAN, nestedhvm : BOOLEAN,
     width : {8}, xfeature_mask : XfeatureMasks]
      \cup
    [hvm : {FALSE}, pvh : BOOLEAN, pae : {FALSE}, nestedhvm : {FALSE},
     width : {4, 8}, xfeature_mask : XfeatureMasks]

\* the contexts the single-leaf calls are exercised with
DomSetLeaf ==
    {d \in DomSet :
        /\ d.hvm => d.pae = d.nestedhvm /\ (d.pae = (d.xfeature_mask # {}))
        /\ ~d.hvm => /\ d.pvh = (d.width = 8)
                     /\ d.pvh = (d.xfeature_mask = {})}

NoDom ==
    [hvm : {FALSE}, pvh : {FALSE}, pae : {FALSE}, nestedhvm : {FALSE},
     width : {0}, xfeature_mask : {{}}]

NoFault == [kind |-> "none", n |-> 0]

FaultsCheck == {NoFault} \cup [kind : {"alloc"}, n : 1..4]

FaultsSet ==
    FaultsCheck \cup {[kind |-> "getinfo", n |-> 0],
                      [kind |-> "domctl", n |-> 1]}

FaultsApply ==
    {NoFault, [kind |-> "getinfo", n |-> 0]}
      \cup [kind : {"domctl"}, n : {1, 3, 4}]

\* caller-supplied feature sets: one entry fewer than the host has, as many,
\* one more; all zero, or the last entry nonzero
Featuresets ==
    [given : {TRUE},
     words : UNION {{[i \in 1..n |-> 0], [i \in 1..n |-> IF i = n THEN 1 ELSE 0]}
                    : n \in (HostFeatureWords - 1)..(HostFeatureWords + 1)},
     beyond : {0, 1}]

\* the arguments and environment of the xc_cpuid_apply_policy calls
ApplyArgs ==
    [dom : DomSet, fault : FaultsApply, featureset : {NoFeatureset}]
      \cup
    [dom : {d \in DomSetLeaf : d.xfeature_mask # {}}, fault : {NoFault},
     featureset : Featuresets]

\* the largest feature index queried, and the most entries of a table
MaxFeature == 5

MaxDeps == 4

\* the table of the features in S, ascending, one entry per feature, each
\* with a dependency set of its own
RECURSIVE DeepTable(_)
DeepTable(S) ==
    IF S = {} THEN <<>>
    ELSE LET m == CHOOSE x \in S : \A y \in S : y <= x
         IN  Append(DeepTable(S \ {m}), [feature |-> m, fs |-> <<m + 1>>])

DeepTables ==
    {DeepTable(S) : S \in {T \in SUBSET (0..MaxFeature) :
                              Cardinality(T) \in 1..MaxDeps}}

\* "z" stands for any character outside both alphabets
Chars == {"1", "0", "x", "k", "s", "z"}

All(a) == [j \in 1..32 |-> a]
AtFirst(a, b) == [j \in 1..32 |-> IF j = 1 THEN a ELSE b]
AtLast(a, b) == [j \in 1..32 |-> IF j = 32 THEN a ELSE b]

Strs(a, b, c, d) == [i \in 0..3 |-> CASE i = 0 -> a [] i = 1 -> b
                                      [] i = 2 -> c [] OTHER -> d]

Directives ==
    UNION { { Strs(All(a), All(a), All(a), All(a)),
              Strs(All(a), NULL, NULL, NULL),
              Strs(NULL, NULL, NULL, All(a)),
              Strs(AtFirst(a, "x"), NULL, AtFirst(a, "s"), NULL),
              Strs(All("x"), AtLast(a, "k"), NULL, AtLast(a, "1")),
              Strs(All("s"), All("k"), All("x"), AtLast(a, "0")) }
            : a \in Chars }
      \cup {NoStrs}

LeafInputs == {In(W(1), XEN_CPUID_INPUT_UNUSED), In(W(7), W(0))}

(***************************************************************************)
(* The state machine.                                                      *)
(***************************************************************************)
\* what the caller keeps of the xc_cpuid_set call whose output it re-supplies
NoPrev == [set |-> FALSE, config |-> NoStrs, regs |-> ZeroRegs, ct |-> NoStrs]

IdleCall ==
    [dom |-> CHOOSE d \in NoDom : TRUE, pc |-> "idle", op |-> "none",
     fault |-> NoFault, input |-> In(W(0), W(0)), config |-> NoStrs,
     config_transformed |-> NoStrs, regs |-> ZeroRegs, polregs |-> ZeroRegs,
     rc |-> "0", domctl_calls |-> <<>>, info |-> NoInfo, base_max |-> {},
     ext_max |-> {}, prev |-> NoPrev, visited |-> <<>>,
     featureset |-> NoFeatureset, ctx |-> NoCtx]

Idle ==
    /\ dom = IdleCall.dom
    /\ pc = IdleCall.pc
    /\ op = IdleCall.op
    /\ fault = IdleCall.fault
    /\ input = IdleCall.input
    /\ config = IdleCall.config
    /\ config_transformed = IdleCall.config_transformed
    /\ regs = IdleCall.regs
    /\ polregs = IdleCall.polregs
    /\ rc = IdleCall.rc
    /\ domctl_calls = IdleCall.domctl_calls
    /\ info = IdleCall.info
    /\ base_max = IdleCall.base_max
    /\ ext_max = IdleCall.ext_max
    /\ prev = IdleCall.prev
    /\ visited = IdleCall.visited
    /\ featureset = IdleCall.featureset
    /\ ctx = IdleCall.ctx

\* no call of xc_get_feature_deep_deps is in progress
DeepIdleCall == [feature |-> 0, start |-> 0, end |-> 0, deep_ret |-> NULL]

DeepIdle ==
    /\ deep_pc = "idle"
    /\ feature = DeepIdleCall.feature
    /\ start = DeepIdleCall.start
    /\ end = DeepIdleCall.end
    /\ deep_ret = DeepIdleCall.deep_ret

\* no call of do_dom0_op is in progress
Dom0Idle ==
    /\ domnr = 0
    /\ domain_list = BootDomains
    /\ msr_cpu_mask = {} /\ msr_addr = 0 /\ msr_lo = 0 /\ msr_hi = 0
    /\ msrs = [c \in Cpus |-> [a \in MsrAddrs |-> MsrReset(c, a)]]
    /\ calls = [p \in Cpus |-> NoCall]

Init ==
    /\ hw \in Hardware /\ Idle
    /\ deep_deps = DeepTable({0}) /\ DeepIdle
    /\ Dom0Idle

InitApply ==
    /\ hw \in HardwareApply /\ Idle
    /\ deep_deps = DeepTable({0}) /\ DeepIdle
    /\ Dom0Idle

\* xc_cpuid_check(xch, input, config, config_transformed)
Check ==
    /\ pc = "idle"
    /\ \E in \in LeafInputs, cfg \in Directives, flt \in FaultsCheck :
          \E res \in {xc_cpuid_check(hw, in, cfg, flt)} :
              /\ op' = "check"
              /\ input' = in
              /\ config' = cfg
              /\ fault' = flt
              /\ regs' = cpuid(hw, in)
              /\ rc' = res.rc
              /\ config_transformed' = res.ct
    /\ pc' = "done"
    /\ UNCHANGED <<deep_vars, dom0_vars>>
    /\ UNCHANGED <<hw, dom, polregs, domctl_calls, info, base_max, ext_max,
                   prev, visited, featureset, ctx>>

SetCall(d, in, cfg, flt) ==
    \E res \in {xc_cpuid_set(hw, 1, d, in, cfg, flt)} :
        /\ op' = "set"
        /\ dom' = d
        /\ input' = in
        /\ config' = cfg
        /\ fault' = flt
        /\ info' = res.info
        /\ regs' = res.regs
        /\ polregs' = res.polregs
        /\ rc' = res.rc
        /\ config_transformed' = res.ct
        /\ domctl_calls' = res.calls
        /\ ctx' = res.ctx
        /\ pc' = "done"
        /\ UNCHANGED <<hw, base_max, ext_max, visited, featureset>>
        /\ UNCHANGED <<deep_vars, dom0_vars>>

\* xc_cpuid_set(xch, domid, input, config, config_transformed)
Set ==
    /\ pc = "idle"
    /\ \E d \in DomSetLeaf, in \in LeafInputs, cfg \in Directives,
          flt \in FaultsSet : SetCall(d, in, cfg, flt)
    /\ prev' = NoPrev

\* the caller persists the transformed directive of a successful
\* xc_cpuid_set and supplies it as the directive of the next call
Resupply ==
    /\ pc = "done" /\ op = "set" /\ rc = "0"
    /\ SetCall(dom, input, config_transformed, NoFault)
    /\ prev' = [set |-> TRUE, config |-> config, regs |-> regs,
                ct |-> config_transformed]

\* xc_cpuid_apply_policy: get_cpuid_domain_info and the two ceilings
ApplyBegin ==
    /\ pc = "idle"
    /\ \E a \in ApplyArgs :
          \E gi \in {get_cpuid_domain_info(hw, a.dom, a.fault, a.featureset)} :
              /\ dom' = a.dom
              /\ fault' = a.fault
              /\ featureset' = a.featureset
              /\ info' = gi.info
              /\ rc' = gi.rc
              /\ pc' = IF gi.rc = "0" THEN "loop" ELSE "done"
              /\ ctx' = IF gi.rc = "0" THEN [NoCtx EXCEPT !.buf = gi.buf]
                        ELSE free_cpuid_domain_info(
                                 [NoCtx EXCEPT !.buf = gi.buf])
              /\ base_max' = IF gi.rc = "0" THEN apply_base_max(hw) ELSE {}
              /\ ext_max' = IF gi.rc = "0" THEN apply_ext_max(hw, gi.info)
                            ELSE {}
    /\ op' = "apply"
    /\ input' = In(W(0), XEN_CPUID_INPUT_UNUSED)
    /\ UNCHANGED <<deep_vars, dom0_vars>>
    /\ UNCHANGED <<hw, config, config_transformed, regs, polregs,
                   domctl_calls, prev, visited>>

\* one pass of the for ( ; ; ) loop of xc_cpuid_apply_policy, and the out:
\* label when the pass leaves the loop.  The enumeration of leaf 4 is
\* followed through MaxLeaf4 subleaves.
ApplyStep ==
    /\ pc = "loop"
    /\ ~(input[0] = W(4) /\ Gt(input[1], W(MaxLeaf4)))
    /\ \E r \in {xc_cpuid_policy(hw, info, input, cpuid(hw, input))} :
       LET res == IF r # ZeroRegs
                  THEN xc_cpuid_do_domctl(fault, Len(domctl_calls))
                  ELSE rc
           adv == apply_advance(input, r, base_max, ext_max)
           out == res # "0" \/ adv.brk
       IN  /\ regs' = r
           /\ visited' = Append(visited, [input |-> input, regs |-> r])
           /\ domctl_calls' =
                 IF r # ZeroRegs
                 THEN Append(domctl_calls, DomctlCall(1, input, r, res))
                 ELSE domctl_calls
           /\ rc' = res
           /\ IF res # "0"
              THEN pc' = "done" /\ input' = input
              ELSE /\ input' = adv.input
                   /\ pc' = IF adv.brk THEN "done" ELSE "loop"
           /\ ctx' = IF out THEN free_cpuid_domain_info(ctx) ELSE ctx
    /\ UNCHANGED <<deep_vars, dom0_vars>>
    /\ UNCHANGED <<hw, dom, op, fault, config, config_transformed, polregs,
                   info, base_max, ext_max, prev, featureset>>

\* the call has returned; nothing of it persists in the library
Return ==
    /\ pc = "done"
    /\ dom' = IdleCall.dom
    /\ pc' = IdleCall.pc
    /\ op' = IdleCall.op
    /\ fault' = IdleCall.fault
    /\ input' = IdleCall.input
    /\ config' = IdleCall.config
    /\ config_transformed' = IdleCall.config_transformed
    /\ regs' = IdleCall.regs
    /\ polregs' = IdleCall.polregs
    /\ rc' = IdleCall.rc
    /\ domctl_calls' = IdleCall.domctl_calls
    /\ info' = IdleCall.info
    /\ base_max' = IdleCall.base_max
    /\ ext_max' = IdleCall.ext_max
    /\ prev' = IdleCall.prev
    /\ visited' = IdleCall.visited
    /\ featureset' = IdleCall.featureset
    /\ ctx' = IdleCall.ctx
    /\ UNCHANGED <<hw, deep_vars, dom0_vars>>

Next == Check \/ Set \/ Resupply \/ Return

Spec == Init /\ [][Next]_vars

NextApply == ApplyBegin \/ ApplyStep \/ Return

SpecApply == InitApply /\ [][NextApply]_vars

\* the two entry points that program the domain: xc_cpuid_set and
\* xc_cpuid_apply_policy
NextProgram == Set \/ ApplyBegin \/ ApplyStep \/ Return

SpecProgram == Init /\ [][NextProgram]_vars

\* the processor of the calls of xc_get_feature_deep_deps
DeepHardware ==
    [vendor |-> "GenuineIntel", fill |-> ZeroRegs, base |-> W(13),
     ext |-> Ext(8), ncache |-> 0, endless |-> FALSE]

InitDeep ==
    /\ hw = DeepHardware /\ Idle
    /\ deep_deps \in DeepTables /\ DeepIdle
    /\ Dom0Idle

\* xc_get_feature_deep_deps(feature): the initialisers of start and end
DeepCall ==
    /\ deep_pc = "idle"
    /\ \E f \in 0..MaxFeature : feature' = f
    /\ start' = 0
    /\ end' = ARRAY_SIZE(deep_deps)
    /\ deep_ret' = NULL
    /\ deep_pc' = "while"
    /\ UNCHANGED <<deep_deps, cpuid_vars, dom0_vars>>

\* one test of while ( start < end ) and, if it holds, one pass of the body;
\* else return NULL
DeepPass ==
    /\ deep_pc = "while"
    /\ IF start < end
       THEN \E p \in {deep_deps_pass(deep_deps, feature, start, end)} :
               /\ start' = p.start
               /\ end' = p.end
               /\ deep_ret' = p.ret
               /\ deep_pc' = IF p.found THEN "done" ELSE "while"
       ELSE /\ deep_ret' = NULL
            /\ deep_pc' = "done"
            /\ UNCHANGED <<start, end>>
    /\ UNCHANGED <<deep_deps, feature, cpuid_vars, dom0_vars>>

\* the caller has the result
DeepReturn ==
    /\ deep_pc = "done"
    /\ deep_pc' = "idle"
    /\ feature' = DeepIdleCall.feature
    /\ start' = DeepIdleCall.start
    /\ end' = DeepIdleCall.end
    /\ deep_ret' = DeepIdleCall.deep_ret
    /\ UNCHANGED <<deep_deps, cpuid_vars, dom0_vars>>

NextDeep == DeepCall \/ DeepPass \/ DeepReturn

SpecDeep == InitDeep /\ [][NextDeep]_vars

\* the hypervisor after boot; the library is not part of it
InitDom0 ==
    /\ hw = DeepHardware /\ Idle
    /\ deep_deps = DeepTable({0}) /\ DeepIdle
    /\ Dom0Idle

\* processor p enters do_dom0_op with DOM0_CREATEDOMAIN: ret = -ENOMEM
CreateDomainEnter(p) ==
    /\ calls[p].pc = "idle"
    /\ Len(domain_list) <= MaxDomid
    /\ calls' = [calls EXCEPT ![p] = [NoCall EXCEPT !.pc = "search",
                                                   !.cmd = "DOM0_CREATEDOMAIN",
                                                   !.ret = "-ENOMEM"]]
    /\ UNCHANGED <<domnr, domain_list, msr_cpu_mask, msr_addr, msr_lo, msr_hi,
                   msrs, cpuid_vars, deep_vars>>

\* the critical section of domnr_lock: the next value of the roving counter
CreateDomainNext(p) ==
    /\ calls[p].pc = "search"
    /\ \E n \in {createdomain_next(domnr)} :
          /\ domnr' = n.domnr
          /\ calls' = [calls EXCEPT ![p].dom = n.dom, ![p].pc = "find"]
    /\ UNCHANGED <<domain_list, msr_cpu_mask, msr_addr, msr_lo, msr_hi,
                   msrs, cpuid_vars, deep_vars>>

\* if ( (d = find_domain_by_id(dom)) == NULL ) break; put_domain(d);
CreateDomainFind(p) ==
    /\ calls[p].pc = "find"
    /\ \E d \in {find_domain_by_id(domain_list, calls[p].dom)} :
          /\ calls' = [calls EXCEPT ![p].d = d,
                                    ![p].pc = IF d = NoDomain THEN "create"
                                              ELSE "search"]
          /\ domain_list' = IF d = NoDomain THEN domain_list
                            ELSE put_domain(get_domain(domain_list, d), d)
    /\ UNCHANGED <<domnr, msr_cpu_mask, msr_addr, msr_lo, msr_hi,
                   msrs, cpuid_vars, deep_vars>>

\* d = do_createdomain(dom, pro) and alloc_new_dom_mem: either may fail
CreateDomainCreate(p) ==
    /\ calls[p].pc = "create"
    /\ \/ /\ domain_list' = domain_list
          /\ calls' = [calls EXCEPT ![p].pc = "done"]
       \/ \E dl \in {do_createdomain(domain_list, calls[p].dom)} :
             \/ /\ domain_list' = domain_kill(dl, Len(dl))
                /\ calls' = [calls EXCEPT ![p].pc = "done", ![p].d = Len(dl)]
             \/ /\ domain_list' = dl
                /\ calls' = [calls EXCEPT ![p].pc = "done", ![p].d = Len(dl),
                                          ![p].ret = "0"]
    /\ UNCHANGED <<domnr, msr_cpu_mask, msr_addr, msr_lo, msr_hi,
                   msrs, cpuid_vars, deep_vars>>

\* return ret
Dom0Return(p) ==
    /\ calls[p].pc = "done"
    /\ calls' = [calls EXCEPT ![p] = [NoCall EXCEPT !.count = calls[p].count]]
    /\ UNCHANGED <<domnr, domain_list, msr_cpu_mask, msr_addr, msr_lo, msr_hi,
                   msrs, cpuid_vars, deep_vars>>

CreateDomain ==
    \E p \in Cpus :
        \/ CreateDomainEnter(p)
        \/ CreateDomainNext(p)
        \/ CreateDomainFind(p)
        \/ CreateDomainCreate(p)
        \/ Dom0Return(p)

SpecCreate == InitDom0 /\ [][CreateDomain]_vars

\* the references a structure may hold in the model
MaxRefs == 3

\* the hypervisor after DOM0_CREATEDOMAIN has created domain 1
InitRefs ==
    /\ hw = DeepHardware /\ Idle
    /\ deep_deps = DeepTable({0}) /\ DeepIdle
    /\ domnr = 1
    /\ domain_list = do_createdomain(BootDomains, 1)
    /\ msr_cpu_mask = {} /\ msr_addr = 0 /\ msr_lo = 0 /\ msr_hi = 0
    /\ msrs = [c \in Cpus |-> [a \in MsrAddrs |-> MsrReset(c, a)]]
    /\ calls = [p \in Cpus |-> NoCall]

\* processor p enters do_dom0_op with a command that works on a domain: the
\* command looks the domain up and takes a reference on it, or returns
Dom0Lookup(p) ==
    /\ calls[p].pc = "idle"
    /\ \A i \in 1..Len(domain_list) : domain_list[i].refcnt <= MaxRefs
    /\ \E cmd \in RefCommands, id \in 0..(domnr + 1), pfn_ok \in BOOLEAN,
          num \in {0, GPF2_LIMIT, GPF2_LIMIT + 1}, ctxt \in BOOLEAN :
          /\ (cmd = "DOM0_GETPAGEFRAMEINFO2") = (num >= GPF2_LIMIT)
          /\ cmd = "DOM0_GETDOMAININFO" \/ ~ctxt
          /\ cmd = "DOM0_GETPAGEFRAMEINFO" \/ pfn_ok
          /\ \E d \in {dom0_lookup(cmd, domain_list, id, pfn_ok)} :
                IF d = NoDomain
                THEN /\ calls' = [calls EXCEPT ![p] =
                                     [NoCall EXCEPT !.pc = "done",
                                                    !.ret = dom0_not_found(cmd)]]
                     /\ domain_list' = domain_list
                ELSE /\ calls' = [calls EXCEPT ![p] =
                                     [NoCall EXCEPT !.pc = "body", !.cmd = cmd,
                                                    !.d = d, !.num = num,
                                                    !.ctxt = ctxt]]
                     /\ domain_list' = get_domain(domain_list, d)
    /\ UNCHANGED <<domnr, msr_cpu_mask, msr_addr, msr_lo, msr_hi,
                   msrs, cpuid_vars, deep_vars>>

\* the command does its work on d and leaves the switch
Dom0Body(p) ==
    /\ calls[p].pc = "body"
    /\ \E fail \in BOOLEAN :
       \E x \in {dom0_op_exit(calls[p].cmd, calls[p].d, calls[p].num,
                                calls[p].ctxt, fail)} :
       \E killed \in {IF x.kill THEN domain_kill(domain_list, calls[p].d)
                      ELSE domain_list} :
          /\ domain_list' = IF x.put THEN put_domain(killed, calls[p].d)
                            ELSE killed
          /\ calls' = [calls EXCEPT ![p] =
                          [NoCall EXCEPT !.pc = "done", !.ret = x.ret]]
    /\ UNCHANGED <<domnr, msr_cpu_mask, msr_addr, msr_lo, msr_hi,
                   msrs, cpuid_vars, deep_vars>>

DomainOps ==
    \E p \in Cpus : Dom0Lookup(p) \/ Dom0Body(p) \/ Dom0Return(p)

SpecRefs == InitRefs /\ [][DomainOps]_vars

\* the DOM0_MSR calls one processor makes in the model
MaxMsrCalls == 2

\* processor p enters do_dom0_op with DOM0_MSR
MsrEnter(p) ==
    /\ calls[p].pc = "idle"
    /\ calls[p].count < MaxMsrCalls
    /\ \E write \in BOOLEAN, mask \in SUBSET Cpus \ {{}}, addr \in MsrAddrs,
          data \in MsrData \cup {0} :
          /\ write = (data # 0)
          /\ calls' = [calls EXCEPT ![p] =
                [NoCall EXCEPT !.pc = "store", !.cmd = "DOM0_MSR",
                               !.count = calls[p].count + 1,
                               !.msr = [NoMsr EXCEPT !.write = write,
                                                     !.cpu_mask = mask,
                                                     !.msr = addr,
                                                     !.in1 = data,
                                                     !.in2 = data]]]
    /\ UNCHANGED <<domnr, domain_list, msr_cpu_mask, msr_addr, msr_lo, msr_hi,
                   msrs, cpuid_vars, deep_vars>>

\* the parameters of the broadcast are stored in the statics of the file
MsrStore(p) ==
    /\ calls[p].pc = "store"
    /\ msr_cpu_mask' = calls[p].msr.cpu_mask
    /\ msr_addr' = calls[p].msr.msr
    /\ IF calls[p].msr.write
       THEN msr_lo' = calls[p].msr.in1 /\ msr_hi' = calls[p].msr.in2
       ELSE UNCHANGED <<msr_lo, msr_hi>>
    /\ calls' = [calls EXCEPT ![p].pc = "broadcast"]
    /\ UNCHANGED <<domnr, domain_list, msrs, cpuid_vars, deep_vars>>

\* smp_call_function(write_msr_for or read_msr_for, NULL, 1, 1) and the local
\* call: every processor runs the function on the statics as they are now
MsrBroadcast(p) ==
    /\ calls[p].pc = "broadcast"
    /\ IF calls[p].msr.write
       THEN /\ msrs' = write_msr_for(msrs, msr_cpu_mask, msr_addr, msr_lo,
                                     msr_hi)
            /\ calls' = [calls EXCEPT ![p] =
                            [NoCall EXCEPT !.pc = "done",
                                           !.count = calls[p].count]]
            /\ UNCHANGED <<msr_lo, msr_hi>>
       ELSE /\ \E v \in read_msr_for(msrs, msr_cpu_mask, msr_addr, msr_lo,
                                     msr_hi) :
                  msr_lo' = v[1] /\ msr_hi' = v[2]
            /\ calls' = [calls EXCEPT
                  ![p].pc = "copy",
                  ![p].log = {[cpu |-> c, addr |-> msr_addr,
                               lo |-> msrs[c][msr_addr][1],
                               hi |-> msrs[c][msr_addr][2]] :
                              c \in msr_cpu_mask}]
            /\ UNCHANGED msrs
    /\ UNCHANGED <<domnr, domain_list, msr_cpu_mask, msr_addr,
                   cpuid_vars, deep_vars>>

\* op->u.msr.out1 = msr_lo; op->u.msr.out2 = msr_hi;
MsrCopy(p) ==
    /\ calls[p].pc = "copy"
    /\ calls' = [calls EXCEPT ![p] =
                    [NoCall EXCEPT !.pc = "done", !.msr.out1 = msr_lo,
                                   !.msr.out2 = msr_hi,
                                   !.count = calls[p].count]]
    /\ UNCHANGED <<domnr, domain_list, msr_cpu_mask, msr_addr, msr_lo, msr_hi,
                   msrs, cpuid_vars, deep_vars>>

MsrOps ==
    \E p \in Cpus :
        \/ MsrEnter(p)
        \/ MsrStore(p)
        \/ MsrBroadcast(p)
        \/ MsrCopy(p)
        \/ Dom0Return(p)

SpecMsr == InitDom0 /\ [][MsrOps]_vars

(***************************************************************************)
(* Properties.                                                             *)
(***************************************************************************)
SetAlphabet == {"1", "0", "x", "k", "s"}
CheckAlphabet == {"1", "0", "x", "s"}

\* the registers that have a directive
Present(cfg) == {i \in 0..3 : cfg[i] # NULL}

\* every character of the directive is in alphabet A
AllIn(cfg, A) == \A i \in Present(cfg) : \A j \in 1..32 : cfg[i][j] \in A

\* the raw hardware quadruple of the call's leaf
Raw == cpuid(hw, input)

\* xc_cpuid_set got as far as the programming call
SetProgrammed == op = "set" /\ pc = "done" /\ domctl_calls # <<>>

\* the quadruple passed to XEN_DOMCTL_set_cpuid by xc_cpuid_set
Programmed == domctl_calls[1].regs

\* C1 as claimed: at every 's' position the bit programmed by xc_cpuid_set is
\* the Policy Engine's bit (polregs).
C1_StickyIsPolicyBit ==
    SetProgrammed =>
        \A i \in Present(config) : \A j \in 0..31 :
            config[i][j + 1] = "s" =>
                Bit(Programmed[i], 31 - j) = Bit(polregs[i], 31 - j)

\* C1 amended: at every 's' position the bit programmed by xc_cpuid_set is
\* the raw hardware bit of that position, as for 'k'.
C1_StickyIsRawBit ==
    SetProgrammed =>
        \A i \in Present(config) : \A j \in 0..31 :
            config[i][j + 1] = "s" =>
                Bit(Programmed[i], 31 - j) = Bit(Raw[i], 31 - j)

C1_Witness ==
    /\ SetProgrammed
    /\ \E i \in Present(config) : \E j \in 0..31 :
          /\ config[i][j + 1] = "s"
          /\ Bit(Raw[i], 31 - j) # Bit(polregs[i], 31 - j)

\* C2 as claimed: a successful xc_cpuid_set returns, for every register with
\* a directive, the original character at '0', '1' and 'k' positions and the
\* applied bit as '0' or '1' at 'x' and 's' positions.
C2_TransformedResolvesXandS ==
    (op = "set" /\ pc = "done" /\ rc = "0") =>
        \A i \in Present(config) : \A j \in 0..31 :
            LET c == config[i][j + 1]
                t == config_transformed[i][j + 1]
            IN  /\ c \in {"0", "1", "k"} => t = c
                /\ c \in {"x", "s"} => t = Digit(Bit(Programmed[i], 31 - j))

\* C3: the quadruple xc_cpuid_set programs has, per bit, 1 for '1', 0 for
\* '0', the policy bit for 'x', the raw bit for 'k'; a register without a
\* directive is the policy register; polregs is xc_cpuid_policy of the raw
\* quadruple, so an all-'x' directive programs exactly the policy's output.
C3_ProgrammedQuadruple ==
    SetProgrammed =>
        /\ polregs = xc_cpuid_policy(hw, info, input, Raw)
        /\ \A i \in 0..3 :
              IF config[i] = NULL THEN Programmed[i] = polregs[i]
              ELSE \A j \in 0..31 :
                      LET c == config[i][j + 1]
                          b == Bit(Programmed[i], 31 - j)
                      IN  /\ c = "1" => b = 1
                          /\ c = "0" => b = 0
                          /\ c = "x" => b = Bit(polregs[i], 31 - j)
                          /\ c = "k" => b = Bit(Raw[i], 31 - j)
        /\ (\A i \in 0..3 : config[i] = All("x")) =>
              Programmed = xc_cpuid_policy(hw, info, input, Raw)

C3_Witness ==
    /\ SetProgrammed
    /\ \A i \in 0..3 : config[i] = All("x")
    /\ Programmed # Raw
    /\ Programmed # ZeroRegs

\* C4: re-supplying the transformed directive of a successful xc_cpuid_set
\* for the same leaf, domain and hardware succeeds, programs the same
\* quadruple and returns the same transformed directive.
C4_RoundTrip ==
    (op = "set" /\ pc = "done" /\ prev.set) =>
        /\ rc = "0"
        /\ Programmed = prev.regs
        /\ config_transformed = prev.ct

C4_Witness ==
    /\ op = "set" /\ pc = "done" /\ prev.set /\ rc = "0"
    /\ \E i \in Present(prev.config) : \E j \in 0..31 :
          /\ prev.config[i][j + 1] = "s"
          /\ Bit(Raw[i], 31 - j) # Bit(polregs[i], 31 - j)
    /\ \E i \in Present(prev.config) : \E j \in 1..32 :
          prev.config[i][j] = "x"

\* every '1' position has raw bit 1 and every '0' position raw bit 0
CheckMatches ==
    \A i \in Present(config) : \A j \in 0..31 :
        /\ config[i][j + 1] = "1" => Bit(Raw[i], 31 - j) = 1
        /\ config[i][j + 1] = "0" => Bit(Raw[i], 31 - j) = 0

\* C5: when its output strings can be allocated, xc_cpuid_check of a
\* directive over {'1','0','x','s'} succeeds exactly when the raw bits match
\* the '1' and '0' positions (index j naming bit 31-j), fails with -EPERM
\* otherwise, and returns a directive over {'1','0','x'} unchanged.
C5_CheckSucceedsIffMatch ==
    (op = "check" /\ pc = "done" /\ fault.kind # "alloc"
        /\ AllIn(config, CheckAlphabet)) =>
        /\ rc = "0" <=> CheckMatches
        /\ rc # "0" => rc = "-EPERM"
        /\ (rc = "0" /\ AllIn(config, {"1", "0", "x"})) =>
              config_transformed = config

C5_Witness ==
    /\ op = "check" /\ pc = "done" /\ fault = NoFault
    /\ config[0] = AtFirst("1", "x")
    /\ 31 \notin Raw[0] /\ 0 \in Raw[0]
    /\ rc = "-EPERM"

\* C6 as claimed: xc_cpuid_check of a directive with a character outside
\* {'1','0','x','s'} fails with -EINVAL.
C6_CheckInvalidIsEINVAL ==
    (op = "check" /\ pc = "done" /\ fault = NoFault
        /\ ~AllIn(config, CheckAlphabet)) => rc = "-EINVAL"

\* C7: xc_cpuid_check and xc_cpuid_set return all four transformed strings
\* NULL on every error, and on success a complete 32-character string for
\* exactly the registers that had a directive.
C7_AllOrNothing ==
    (op \in {"check", "set"} /\ pc = "done") =>
        IF rc # "0" THEN \A i \in 0..3 : config_transformed[i] = NULL
        ELSE \A i \in 0..3 :
                IF config[i] = NULL THEN config_transformed[i] = NULL
                ELSE /\ Len(config_transformed[i]) = 32
                     /\ \A j \in 1..32 : config_transformed[i][j] # NUL

C7_Witness ==
    /\ op = "set" /\ pc = "done" /\ rc = "-EINVAL"
    /\ config[0] = All("s") /\ config[3] = AtLast("z", "0")
    /\ config_transformed = NoStrs

\* C8: xc_cpuid_set of a directive with a character outside
\* {'1','0','x','k','s'} never issues the programming call and fails: with
\* -EINVAL, unless the context resolution or an allocation failed first.
C8_InvalidNeverPrograms ==
    (op = "set" /\ pc = "done" /\ ~AllIn(config, SetAlphabet)) =>
        /\ domctl_calls = <<>>
        /\ \/ rc = "-EINVAL"
           \/ fault.kind = "getinfo" /\ rc = "-ESRCH"
           \/ fault.kind = "alloc" /\ rc = "-ENOMEM"

C8_Witness ==
    /\ op = "set" /\ pc = "done" /\ fault = NoFault
    /\ config[0] = All("s") /\ config[1] = All("k")
    /\ config[3] = AtLast("z", "0")
    /\ rc = "-EINVAL" /\ domctl_calls = <<>>

\* the leaves xc_cpuid_apply_policy has computed so far, with leaf number n
VisitedLeaf(n) ==
    {k \in 1..Len(visited) : visited[k].input[0] = W(n)}

\* C9: with xfeature_mask == 0 every leaf 0x0D quadruple the traversal
\* computes (subleaves 0..63) is all zero, and no leaf 0x0D entry is
\* programmed.
C9_NoXsaveLeafWithoutXstate ==
    (op = "apply" /\ info.xfeature_mask = {}) =>
        /\ \A k \in VisitedLeaf(13) : visited[k].regs = ZeroRegs
        /\ \A k \in 1..Len(domctl_calls) : domctl_calls[k].input[0] # W(13)

C9_Witness ==
    /\ op = "apply" /\ pc = "done" /\ rc = "0"
    /\ info.xfeature_mask = {}
    /\ hw.fill[0] # {}
    /\ {visited[k].input[1] : k \in VisitedLeaf(13)} = {W(n) : n \in 0..63}
    /\ domctl_calls # <<>>

\* C10 as claimed: with xfeature_mask == 0 the policy's leaf 1 ecx has XSAVE,
\* OSXSAVE and AVX clear and its leaf 7 subleaf 0 ebx has AVX2 and MPX clear.
C10_NoXsaveFamilyWithoutXstate ==
    (op = "apply" /\ info.xfeature_mask = {}) =>
        /\ \A k \in VisitedLeaf(1) :
              visited[k].regs[2]
                 \cap MaskOf({F.XSAVE, F.OSXSAVE, F.AVX}) = {}
        /\ \A k \in VisitedLeaf(7) :
              visited[k].input[1] = W(0) =>
                 visited[k].regs[1] \cap MaskOf({F.AVX2, F.MPX}) = {}

\* the leaf xc_cpuid_apply_policy computed last, and its raw hardware value
LastVisited == visited[Len(visited)]

LastRaw == cpuid(hw, LastVisited.input)

\* the traversal has computed a leaf for an HVM domain
HvmVisited == op = "apply" /\ visited # <<>> /\ info.hvm

\* the traversal has computed a leaf for a PV domain
PvVisited == op = "apply" /\ visited # <<>> /\ ~info.hvm

\* C11: for an HVM domain with PAE disabled, the computed leaf 1 edx has PAE
\* and PSE36 clear, and the computed leaf 0x80000001 has LM, NX and PAGE1GB
\* clear in edx and LAHF_LM clear in ecx, on every vendor: the vendor pass
\* does not set any of them again.
C11_PaeDisabledClears ==
    (HvmVisited /\ ~info.pae) =>
        /\ LastVisited.input[0] = W(1) =>
              LastVisited.regs[3] \cap MaskOf({F.PAE, F.PSE36}) = {}
        /\ LastVisited.input[0] = Ext(1) =>
              /\ LastVisited.regs[3]
                    \cap MaskOf({F.LM, F.NX, F.PAGE1GB}) = {}
              /\ LastVisited.regs[2] \cap bitmaskof(F.LAHF_LM) = {}

\* an HVM domain without PAE reached leaf 0x80000001 on hardware that
\* reports all six bits, and something of the leaf is left
C11_Witness ==
    /\ HvmVisited /\ ~info.pae
    /\ LastVisited.input[0] = Ext(1)
    /\ MaskOf({F.LM, F.NX, F.PAGE1GB}) \subseteq LastRaw[3]
    /\ bitmaskof(F.LAHF_LM) \subseteq LastRaw[2]
    /\ MaskOf({F.PAE, F.PSE36})
          \subseteq cpuid(hw, In(W(1), XEN_CPUID_INPUT_UNUSED))[3]
    /\ LastVisited.regs # ZeroRegs

\* the pass of the loop before the last one
PrevVisited == visited[Len(visited) - 1]

C13_AmdSvmLeaf ==
    (op = "apply" /\ visited # <<>> /\ info.vendor = "VENDOR_AMD"
        /\ LastVisited.input[0] = Ext(10)) =>
        /\ ~info.nestedhvm => LastVisited.regs = ZeroRegs
        /\ (info.hvm /\ info.nestedhvm) =>
              LastVisited.regs =
                 Quad(LastRaw[0], LastRaw[1], LastRaw[2],
                      (LastRaw[3] \cap {0, 1, 3, 7, 10}) \cup {4, 5})

\* nested virtualization is enabled on AMD hardware whose raw leaf 0x8000000A
\* has neither emulated bit: both are set in the computed edx
C13_Witness ==
    /\ HvmVisited /\ info.vendor = "VENDOR_AMD" /\ info.nestedhvm
    /\ LastVisited.input[0] = Ext(10)
    /\ LastRaw[3] \cap {4, 5} = {}
    /\ LastRaw[0] # {}
    /\ LastVisited.regs[3] = {4, 5}

\* the extended-leaf ceiling of the context's vendor
VendorCeiling ==
    IF info.vendor = "VENDOR_AMD" THEN Ext(28) ELSE Ext(8)

\* C14 as claimed: for every context, HVM and PV, the computed eax of leaf 0
\* is at most 0x0D and the computed eax of leaf 0x80000000 is at most the
\* vendor ceiling; a raw eax at or below the ceiling is returned unchanged.
C14_MaxLeafClamped ==
    (op = "apply" /\ visited # <<>>) =>
        /\ LastVisited.input[0] = W(0) =>
              /\ ~Gt(LastVisited.regs[0], W(13))
              /\ ~Gt(LastRaw[0], W(13)) => LastVisited.regs[0] = LastRaw[0]
        /\ LastVisited.input[0] = Ext(0) =>
              /\ ~Gt(LastVisited.regs[0], VendorCeiling)
              /\ ~Gt(LastRaw[0], VendorCeiling) =>
                    LastVisited.regs[0] = LastRaw[0]

\* C14 amended: for an HVM domain the computed eax of leaf 0 is the smaller of
\* the raw eax and 0x0D, and the computed eax of leaf 0x80000000 the smaller
\* of the raw eax and the vendor ceiling; for a PV domain both are the raw
\* eax, whatever it is.
C14_HvmMaxLeafClamped ==
    (op = "apply" /\ visited # <<>>) =>
        /\ (info.hvm /\ LastVisited.input[0] = W(0)) =>
              LastVisited.regs[0] =
                 IF Gt(LastRaw[0], W(13)) THEN W(13) ELSE LastRaw[0]
        /\ (info.hvm /\ LastVisited.input[0] = Ext(0)) =>
              LastVisited.regs[0] =
                 IF Gt(LastRaw[0], VendorCeiling) THEN VendorCeiling
                 ELSE LastRaw[0]
        /\ (~info.hvm /\ LastVisited.input[0] \in {W(0), Ext(0)}) =>
              LastVisited.regs[0] = LastRaw[0]

\* an HVM domain on hardware reporting more basic leaves than 0x0D and more
\* extended leaves than the ceiling: both maxima were clamped
C14_Witness ==
    /\ HvmVisited
    /\ LastVisited.input[0] = Ext(0)
    /\ Gt(LastRaw[0], VendorCeiling)
    /\ LastVisited.regs[0] = VendorCeiling
    /\ Gt(hw.base, W(13))
    /\ visited[1].input[0] = W(0) /\ visited[1].regs[0] = W(13)

\* the leaves up to the ceilings that have no case in xc_cpuid_hvm_policy,
\* in xc_cpuid_pv_policy or in a vendor pass
NoRuleLeaves ==
    {W(3), W(6), W(8), W(9), W(12), Ext(9)} \cup {Ext(n) : n \in 11..26}

\* C15 as claimed: for both guest types a leaf that has no rule is computed
\* as the all-zero quadruple.
C15_DefaultDeny ==
    (op = "apply" /\ visited # <<>>
        /\ LastVisited.input[0] \in NoRuleLeaves) =>
        LastVisited.regs = ZeroRegs

\* C15 amended: a leaf that has no rule is computed as the all-zero quadruple
\* for an HVM domain, and is not programmed; for a PV domain it is the raw
\* hardware quadruple unchanged.
C15_HvmDefaultDeny ==
    (op = "apply" /\ visited # <<>>
        /\ LastVisited.input[0] \in NoRuleLeaves) =>
        /\ info.hvm =>
              /\ LastVisited.regs = ZeroRegs
              /\ \A k \in 1..Len(domctl_calls) :
                    domctl_calls[k].input[0] \notin NoRuleLeaves
        /\ ~info.hvm => LastVisited.regs = LastRaw

\* an HVM domain reached leaf 3 on hardware that reports something there
C15_Witness ==
    /\ HvmVisited
    /\ LastVisited.input[0] = W(3)
    /\ LastRaw = Quad(AllOnes, AllOnes, AllOnes, AllOnes)
    /\ LastVisited.regs = ZeroRegs
    /\ domctl_calls # <<>>

\* the last leaf as the switch of xc_cpuid_hvm_policy leaves it, before the
\* vendor pass
LastGuestPass == hvm_guest_pass(hw, info, LastVisited.input, LastRaw)

\* the bits of register i that the vendor pass set in the last leaf
LastAdded(i) == LastVisited.regs[i] \ LastGuestPass[i]

\* C16 as claimed: for an HVM domain the only bits the vendor pass sets are
\* in eax[31:26] of leaf 4, in ecx of leaf 0x80000008, and the two emulated
\* bits (4, 5) of edx of leaf 0x8000000A; it sets no bit of leaf 1 or of
\* leaf 0x80000001.
C16_VendorPassAddsNothing ==
    HvmVisited =>
        \A i \in 0..3 :
            LastAdded(i) \subseteq
                CASE LastVisited.input[0] = W(4) /\ i = 0 -> 26..31
                  [] LastVisited.input[0] = Ext(8) /\ i = 2 -> Bits32
                  [] LastVisited.input[0] = Ext(10) /\ i = 3 -> {4, 5}
                  [] OTHER -> {}

\* C16 amended: besides those, the vendor pass sets VMX in ecx of leaf 1 when
\* nested virtualization is enabled and the vendor is not AMD, and bits of
\* eax of leaf 0x80000000 when it replaces a larger raw maximum by the vendor
\* ceiling; it sets no other bit, and none of leaf 0x80000001.
C16_VendorPassAddsListed ==
    HvmVisited =>
        \A i \in 0..3 :
            LastAdded(i) \subseteq
                CASE LastVisited.input[0] = W(4) /\ i = 0 -> 26..31
                  [] LastVisited.input[0] = Ext(8) /\ i = 2 -> Bits32
                  [] LastVisited.input[0] = Ext(10) /\ i = 3 -> {4, 5}
                  [] LastVisited.input[0] = W(1) /\ i = 2
                        /\ info.nestedhvm /\ info.vendor # "VENDOR_AMD" ->
                        bitmaskof(F.VMX)
                  [] LastVisited.input[0] = Ext(0) /\ i = 0
                        /\ Gt(LastRaw[0], VendorCeiling) -> VendorCeiling
                  [] OTHER -> {}

\* the vendor pass has set a topology bit of leaf 4 that the guest-type pass
\* left clear, for an HVM domain on Intel hardware
C16_Witness ==
    /\ HvmVisited /\ info.vendor = "VENDOR_INTEL"
    /\ LastVisited.input[0] = W(4)
    /\ LastAdded(0) # {}
    /\ LastAdded(0) \subseteq 26..31

\* a supplied entry at an index at or beyond the host entry count is nonzero
ExcessNonzero ==
    \E i \in (xc_get_cpu_featureset_size + 1)..Len(featureset.words) :
        featureset.words[i] # 0

\* C17 as claimed: get_cpuid_domain_info fails a caller-supplied feature set
\* with -EOPNOTSUPP exactly when a supplied entry at an index at or beyond
\* the host entry count is nonzero (a shorter set is accepted whatever lies
\* beyond it), and then xc_cpuid_apply_policy programs nothing.
C17_FeaturesetTruncation ==
    (op = "apply" /\ featureset.given) =>
        /\ rc = "-EOPNOTSUPP" <=> ExcessNonzero
        /\ rc = "-EOPNOTSUPP" => domctl_calls = <<>>

\* the programming call that the environment fails has been made
ProgrammingFailed ==
    op = "apply" /\ fault.kind = "domctl" /\ Len(domctl_calls) >= fault.n

\* C18: when a programming call of xc_cpuid_apply_policy fails, the call is
\* over: it returns the error of that call, the failed call is the last call
\* made and is for the leaf computed last, the calls before it succeeded and
\* are each for a different leaf and subleaf, and the feature set buffer of
\* the context is released.
C18_FailureStopsTraversal ==
    ProgrammingFailed =>
        /\ pc = "done"
        /\ rc = "-EFAULT"
        /\ Len(domctl_calls) = fault.n
        /\ domctl_calls[fault.n] =
              DomctlCall(1, LastVisited.input, LastVisited.regs, "-EFAULT")
        /\ input = LastVisited.input
        /\ \A k \in 1..(fault.n - 1) :
              /\ domctl_calls[k].rc = "0"
              /\ \A l \in 1..(k - 1) :
                    domctl_calls[l].input # domctl_calls[k].input
        /\ ctx.buf # NULL /\ ctx.freed

\* C18, as a step: once the programming call has failed the only step left
\* is the return; nothing is computed or programmed after it.
C18_NothingAfterFailure ==
    [][ProgrammingFailed => (pc' = "idle" /\ domctl_calls' = <<>>)]_vars

\* the third programming call failed after two leaves were programmed
C18_Witness ==
    /\ ProgrammingFailed /\ fault.n = 3
    /\ pc = "done" /\ rc = "-EFAULT"
    /\ domctl_calls[1].rc = "0" /\ domctl_calls[2].rc = "0"
    /\ domctl_calls[3].rc = "-EFAULT"
    /\ ctx.freed

\* the leaves computed so far whose quadruple is not all zero, as the
\* programming calls xc_cpuid_apply_policy makes for them
NonzeroVisited ==
    LET nz == SelectSeq(visited, LAMBDA v : v.regs # ZeroRegs)
    IN  [k \in 1..Len(nz) |-> [input |-> nz[k].input, regs |-> nz[k].regs]]

\* the programming calls made so far, without their outcome
CallsMade ==
    [k \in 1..Len(domctl_calls) |->
        [input |-> domctl_calls[k].input, regs |-> domctl_calls[k].regs]]

\* C19 as claimed: no programming call, of xc_cpuid_apply_policy or of
\* xc_cpuid_set, carries the all-zero quadruple, and the calls of
\* xc_cpuid_apply_policy are, in order, one for each computed leaf whose
\* quadruple is nonzero, with that quadruple.
C19_NeverProgramsZero ==
    /\ \A k \in 1..Len(domctl_calls) : domctl_calls[k].regs # ZeroRegs
    /\ op = "apply" => CallsMade = NonzeroVisited

\* C19 amended: the calls of xc_cpuid_apply_policy are, in order, one for
\* each computed leaf whose quadruple is nonzero, with that quadruple, so
\* none carries the all-zero quadruple; xc_cpuid_set, once the directive is
\* resolved, makes exactly one call with the resolved quadruple, all zero or
\* not.
C19_ApplyNeverProgramsZero ==
    /\ op = "apply" =>
          /\ CallsMade = NonzeroVisited
          /\ \A k \in 1..Len(domctl_calls) : domctl_calls[k].regs # ZeroRegs
    /\ (op = "set" /\ pc = "done"
           /\ rc \in {"0", "-EFAULT"} /\ fault.kind \notin {"getinfo"}) =>
          /\ Len(domctl_calls) = 1
          /\ domctl_calls[1].input = input
          /\ domctl_calls[1].regs = regs

\* a traversal without failure has ended having skipped a leaf whose
\* quadruple was all zero and programmed the others
C19_Witness ==
    /\ op = "apply" /\ pc = "done" /\ rc = "0" /\ fault = NoFault
    /\ \E k \in 1..Len(visited) : visited[k].regs = ZeroRegs
    /\ Len(domctl_calls) > 3
    /\ Len(domctl_calls) < Len(visited)

\* the vendor pass of the context zeroes eax of leaf 4
Leaf4Zeroed == info.hvm /\ info.vendor = "VENDOR_AMD"

\* C20, in a form a finite run refutes: xc_cpuid_apply_policy always comes to
\* its end, so on no hardware does it go on asking leaf 4 for subleaf after
\* subleaf; it has left leaf 4 by subleaf MaxLeaf4.
C20_Leaf4EnumerationEnds ==
    (op = "apply" /\ pc = "loop" /\ input[0] = W(4)) =>
        ~Gt(input[1], W(MaxLeaf4))

\* C20, the steps behind the failure: on hardware whose leaf 4 never reports
\* cache type zero, unless the vendor pass zeroes leaf 4, a pass of the loop
\* at leaf 4 either fails to program the leaf or leads to leaf 4 again with
\* the next subleaf.
C20_EndlessLeaf4Repeats ==
    [][(op = "apply" /\ pc = "loop" /\ input[0] = W(4) /\ hw.endless
           /\ ~Leaf4Zeroed) =>
          \/ pc' = "done" /\ rc' # "0"
          \/ pc' = "loop" /\ input' = In(W(4), Add(input[1], W(1)))]_vars

\* the context of the call with its vendor replaced by Intel
AsIntel == [info EXCEPT !.vendor = "VENDOR_INTEL"]

\* what xc_cpuid_policy computes for the last leaf in that context
LastAsIntel == xc_cpuid_policy(hw, AsIntel, LastVisited.input, LastRaw)

\* C21: in a context of unknown vendor xc_cpuid_apply_policy uses the
\* extended-leaf ceiling it would use for Intel, every leaf it computes is
\* the quadruple xc_cpuid_policy computes with the vendor replaced by Intel,
\* the leaf is programmed under the same condition, and the traversal goes
\* on to the same next leaf or ends at the same place.
C21_UnknownIsIntel ==
    (op = "apply" /\ visited # <<>> /\ info.vendor = "VENDOR_UNKNOWN") =>
        /\ ext_max = apply_ext_max(hw, AsIntel)
        /\ LastVisited.regs = LastAsIntel
        /\ (LastAsIntel # ZeroRegs) =>
              /\ domctl_calls # <<>>
              /\ domctl_calls[Len(domctl_calls)].input = LastVisited.input
              /\ domctl_calls[Len(domctl_calls)].regs = LastAsIntel
        /\ rc = "0" =>
              LET adv == apply_advance(LastVisited.input, LastAsIntel,
                                       base_max, apply_ext_max(hw, AsIntel))
              IN  /\ input = adv.input
                  /\ (pc = "done") = adv.brk

\* an HVM domain on hardware of unknown vendor that reports more extended
\* leaves than the Intel ceiling: the traversal ended at the Intel ceiling
\* after a vendor pass that changed the last leaf
C21_Witness ==
    /\ HvmVisited /\ info.vendor = "VENDOR_UNKNOWN"
    /\ Gt(hw.ext, DEF_MAX_INTELEXT)
    /\ pc = "done" /\ rc = "0"
    /\ LastVisited.input[0] = DEF_MAX_INTELEXT
    /\ LastVisited.regs # hvm_guest_pass(hw, info, LastVisited.input, LastRaw)

\* the table is sorted ascending with at most one entry per feature
DeepSorted ==
    \A i, j \in 1..Len(deep_deps) :
        i < j => deep_deps[i].feature < deep_deps[j].feature

\* what a linear search of the table returns for the queried feature
LinearSearch ==
    IF \E i \in 1..Len(deep_deps) : deep_deps[i].feature = feature
    THEN deep_deps[CHOOSE i \in 1..Len(deep_deps) :
                      deep_deps[i].feature = feature].fs
    ELSE NULL

\* C22: on a sorted table xc_get_feature_deep_deps returns what a linear
\* search returns, the dependency set of the entry of the queried feature or
\* NULL; while it searches, an entry of that feature can only lie between
\* start and end, the pass about to be made either returns or makes
\* end - start smaller (so the search ends), and the table never changes.
C22_BinarySearchIsLinearSearch ==
    /\ [](/\ DeepSorted
          /\ deep_pc = "done" => deep_ret = LinearSearch
          /\ deep_pc = "while" =>
                /\ 0 <= start /\ start <= end /\ end <= Len(deep_deps)
                /\ \A i \in 1..Len(deep_deps) :
                      deep_deps[i].feature = feature =>
                         (start < i /\ i <= end)
          /\ (deep_pc = "while" /\ start < end) =>
                LET p == deep_deps_pass(deep_deps, feature, start, end)
                IN  p.found \/ p.end - p.start < end - start)
    /\ [][deep_deps' = deep_deps]_vars

\* a search of a full table that found the last entry after a pass that
\* moved start
C22_Witness ==
    /\ deep_pc = "done"
    /\ Len(deep_deps) = MaxDeps
    /\ feature = deep_deps[Len(deep_deps)].feature
    /\ deep_ret = deep_deps[Len(deep_deps)].fs
    /\ start > 0

\* min(hardware leaf 0 eax, 0x0D), as a number
BaseMaxN == IF Gt(hw.base, W(13)) THEN 13 ELSE ToInt(hw.base)

\* the number of extended leaves up to the hardware maximum clamped to the
\* vendor ceiling; none when that maximum is below 0x80000000
ExtCount ==
    IF 31 \notin hw.ext THEN 0
    ELSE IF Gt(hw.ext, VendorCeiling) THEN ToInt(VendorCeiling \ {31}) + 1
    ELSE ToInt(hw.ext \ {31}) + 1

\* the first subleaf of leaf 4 whose policy-filtered eax has low 5 bits zero
Leaf4Last ==
    CHOOSE k \in 0..(MaxLeaf4 + 1) :
        /\ xc_cpuid_policy(hw, info, In(W(4), W(k)),
                           cpuid(hw, In(W(4), W(k))))[0] \cap (0..4) = {}
        /\ \A j \in 0..(k - 1) :
              xc_cpuid_policy(hw, info, In(W(4), W(j)),
                              cpuid(hw, In(W(4), W(j))))[0] \cap (0..4) # {}

\* the (leaf, subleaf) pairs of basic leaf n, in order
BasicLeafOrder(n) ==
    CASE n = 4 -> [i \in 1..(Leaf4Last + 1) |-> In(W(4), W(i - 1))]
      [] n = 7 -> <<In(W(7), W(0))>>
      [] n = 13 -> [i \in 1..64 |-> In(W(13), W(i - 1))]
      [] OTHER -> <<In(W(n), XEN_CPUID_INPUT_UNUSED)>>

\* basic leaves n..BaseMaxN, then the extended leaves
RECURSIVE LeafOrderFrom(_)
LeafOrderFrom(n) ==
    IF n > BaseMaxN
    THEN [i \in 1..ExtCount |-> In(Ext(i - 1), XEN_CPUID_INPUT_UNUSED)]
    ELSE BasicLeafOrder(n) \o LeafOrderFrom(n + 1)

\* C23: when xc_cpuid_apply_policy has returned 0, the leaves it computed
\* are, in order: the basic leaves 0..min(leaf 0 eax, 0x0D), with leaf 4 at
\* subleaves 0.. up to the first whose computed eax has low 5 bits zero, leaf
\* 7 at subleaf 0, leaf 0x0D at subleaves 0..63 and any other leaf with the
\* subleaf unused; then the extended leaves 0x80000000..ext_max, none when
\* ext_max is below 0x80000000.  No (leaf, subleaf) is in the order twice.
C23_TraversalOrder ==
    (op = "apply" /\ pc = "done" /\ rc = "0") =>
        /\ [k \in 1..Len(visited) |-> visited[k].input] = LeafOrderFrom(0)
        /\ \A k, l \in 1..Len(visited) :
              k # l => visited[k].input # visited[l].input

\* a traversal that ended on hardware with several cache levels and more
\* basic and extended leaves than the ceilings
C23_Witness ==
    /\ op = "apply" /\ pc = "done" /\ rc = "0"
    /\ Gt(hw.base, W(13)) /\ Gt(hw.ext, VendorCeiling)
    /\ Len(visited) = 13 + 64 + ExtCount
    /\ LastVisited.input[0] = VendorCeiling

\* the value of the field w[hi:lo] of a word
Field(w, lo, hi) == ToInt({k - lo : k \in w \cap (lo..hi)})

\* C24 as claimed: for an HVM domain on AMD the computed leaf 0x80000008 has
\* eax = raw eax AND 0xFFFF, ebx = edx = 0, ecx[7:0] = 2n + 1 for the raw
\* ecx[7:0] = n, ecx[15:12] = raw ecx[15:12] + 1, and no other bit of ecx.
C24_AmdCoreFields ==
    (HvmVisited /\ info.vendor = "VENDOR_AMD"
        /\ LastVisited.input[0] = Ext(8)) =>
        /\ LastVisited.regs[0] = LastRaw[0] \cap (0..15)
        /\ LastVisited.regs[1] = {}
        /\ LastVisited.regs[3] = {}
        /\ Field(LastVisited.regs[2], 0, 7) = 2 * Field(LastRaw[2], 0, 7) + 1
        /\ Field(LastVisited.regs[2], 12, 15) = Field(LastRaw[2], 12, 15) + 1
        /\ LastVisited.regs[2] \subseteq (0..7) \cup (12..15)

\* processor p has found its identifier unused and has not created yet
Chosen(p) == calls[p].pc = "create"

\* C25 as claimed: no two domains that exist have the same identifier, no
\* domain exists under an identifier that a DOM0_CREATEDOMAIN call in
\* progress has chosen for itself, two calls in progress have not chosen the
\* same identifier, and no identifier chosen is 0 or DOMID_SELF.
C25_UniqueDomainId ==
    /\ \A i, j \in 1..Len(domain_list) :
          (i # j /\ domain_list[i].live /\ domain_list[j].live) =>
             domain_list[i].domain # domain_list[j].domain
    /\ \A p \in Cpus :
          Chosen(p) =>
             /\ calls[p].dom \in 1..(DOMID_SELF - 1)
             /\ \A i \in 1..Len(domain_list) :
                   domain_list[i].live =>
                      domain_list[i].domain # calls[p].dom
             /\ \A q \in Cpus \ {p} :
                   Chosen(q) => calls[q].dom # calls[p].dom

\* no processor is between the lookup of a command and its return
NoCallInProgress == \A p \in Cpus : calls[p].pc \in {"idle", "done"}

\* C26 as claimed: once every call has released what it obtained, that is
\* whenever no call is in progress, each domain holds the reference of its own
\* existence and no other.
C26_ReferenceBalance ==
    NoCallInProgress =>
       \A i \in 1..Len(domain_list) :
          domain_list[i].refcnt = IF domain_list[i].live THEN 1 ELSE 0

\* processor p takes the step at pc of its DOM0_MSR call
MsrStep(p, at) ==
    calls[p].cmd = "DOM0_MSR" /\ calls[p].pc = at /\ calls'[p].pc # at

\* C27 as claimed: the broadcast of a write runs wrmsr with the call's own
\* register and data on exactly the processors of the call's own mask; the
\* broadcast of a read runs rdmsr on the call's own register, on processors
\* of its own mask only; and out1/out2 are what one of those rdmsr read.
C27_MsrOperationsIndependent ==
    [][\A p \in Cpus :
          LET o == calls[p].msr
          IN  /\ (MsrStep(p, "broadcast") /\ o.write) =>
                    msrs' = write_msr_for(msrs, o.cpu_mask, o.msr, o.in1,
                                          o.in2)
              /\ (MsrStep(p, "broadcast") /\ ~o.write) =>
                    \A e \in calls'[p].log :
                       e.addr = o.msr /\ e.cpu \in o.cpu_mask
              /\ MsrStep(p, "copy") =>
                    \E e \in calls[p].log :
                       /\ e.addr = o.msr /\ e.cpu \in o.cpu_mask
                       /\ e.lo = calls'[p].msr.out1
                       /\ e.hi = calls'[p].msr.out2]_vars

====
